---- MODULE Spec2Model ----
(***************************************************************************)
(* A model of the pmars-ts MARS execution engine: the Simulator class      *)
(* (loadWarriors, setupRound, step, runRound, executeOneCycle, endRound),  *)
(* SimWarrior, CircularQueue, Core, PSpace, the Lehmer RNG and the         *)
(* warrior positioning.  Arrays keep the source's 0-based indices: an      *)
(* array of length n is a function on 0..n-1.                              *)
(***************************************************************************)
EXTENDS Integers, Sequences, FiniteSets, TLC

\* ------------------------------------------------------------------ bounds
\* Small values of the simulator options the model is checked with.
CoreSize == 6
MaxProcesses == 2
MaxCycles == 3
\* The number of rounds that are set up, and of step() calls made after a
\* round has ended, before the model stops making such calls.
MaxRounds == 2
MaxExtraSteps == 1
\* for a PSpace used on its own: its size, and the largest value stored
PSpaceCells == 3
MaxValue == 3

\* ------------------------------------------------------- program constants
\* null (of options.seed and WarriorData.pin) is modelled by -1.
Null == -1

Opcode_MOV == 0
Opcode_ADD == 1
Opcode_SUB == 2
Opcode_MUL == 3
Opcode_DIV == 4
Opcode_MOD == 5
Opcode_JMZ == 6
Opcode_JMN == 7
Opcode_DJN == 8
Opcode_CMP == 9
Opcode_SLT == 10
Opcode_SPL == 11
Opcode_DAT == 12
Opcode_JMP == 13
Opcode_SEQ == 14
Opcode_SNE == 15
Opcode_NOP == 16
Opcode_LDP == 17
Opcode_STP == 18

Modifier_A == 0
Modifier_B == 1
Modifier_AB == 2
Modifier_BA == 3
Modifier_F == 4
Modifier_X == 5
Modifier_I == 6

AddressMode_IMMEDIATE == 0
AddressMode_DIRECT == 1
AddressMode_B_INDIRECT == 2
AddressMode_B_PREDECR == 3
AddressMode_B_POSTINC == 4
AddressMode_A_INDIRECT == 5
AddressMode_A_PREDECR == 6
AddressMode_A_POSTINC == 7

RETRIES1 == 20
RETRIES2 == 4

\* ----------------------------------------------------------------- helpers
Abs(x) == IF x < 0 THEN -x ELSE x

Min(S) == CHOOSE x \in S : \A y \in S : x <= y

\* F of the value of e, e being computed once: a local constant.
Let(e, F(_)) == CHOOSE r \in {F(x) : x \in {e}} : TRUE

\* A TLA+ sequence as a 0-based array.
Arr(sq) == [i \in 0..(Len(sq) - 1) |-> sq[i + 1]]

\* The length of a 0-based array.
ALen(a) == Cardinality(DOMAIN a)

\* JavaScript's a ^ b on non-negative integers.
RECURSIVE XorNat(_, _)
XorNat(a, b) ==
  IF a = 0 THEN b
  ELSE IF b = 0 THEN a
  ELSE 2 * XorNat(a \div 2, b \div 2) + (IF (a % 2) = (b % 2) THEN 0 ELSE 1)

\* ------------------------------------------------------ modular arithmetic
addMod(a, b, m) ==
  LET sum == a + b IN IF sum >= m THEN sum - m ELSE sum

subMod(a, b, m) ==
  LET diff == a - b IN IF diff < 0 THEN diff + m ELSE diff

\* Below 94906265 the product is taken directly; the model's values are small.
mulMod(a, b, m) == (a * b) % m

\* --------------------------------------------------------------------- rng
rng(seed) ==
  LET temp == 16807 * (seed % 127773) - 2836 * (seed \div 127773)
  IN  IF temp < 0 THEN temp + 2147483647 ELSE temp

\* ---------------------------------------------------------------- opcodes
encodeOpcode(op, mod) == op * 8 + mod

decodeOpcode(encoded) == [opcode |-> encoded \div 8, modifier |-> encoded % 8]

createInstruction(opcode, modifier, aMode, aValue, bMode, bValue) ==
  [opcode |-> encodeOpcode(opcode, modifier), aMode |-> aMode, bMode |-> bMode,
   aValue |-> aValue, bValue |-> bValue]

INITIAL_INSTRUCTION ==
  createInstruction(Opcode_DAT, Modifier_F, AddressMode_DIRECT, 0, AddressMode_DIRECT, 0)

\* ---------------------------------------------------------- CircularQueue
\* The fields of the class, and the history field peak: the largest size the
\* queue has had since it was constructed or cleared, which records the sizes
\* the queue passes through between two states of the simulator.
NewQueue(capacity) ==
  [buffer |-> [i \in 0..(capacity - 1) |-> 0], head |-> 0, tail |-> 0,
   capacity |-> capacity, size |-> 0, peak |-> 0]

\* A faulty push, which puts the value in front of the queued ones.
QueuePush_AtHead(q, value) ==
  LET h == (q.head + q.capacity - 1) % q.capacity
  IN  [q EXCEPT !.buffer = [q.buffer EXCEPT ![h] = value],
                !.head = h,
                !.size = q.size + 1,
                !.peak = IF q.size + 1 > q.peak THEN q.size + 1 ELSE q.peak]

\* A faulty push, whose tail stops at the last slot instead of wrapping to 0.
QueuePush_NoWrap(q, value) ==
  [q EXCEPT !.buffer = [q.buffer EXCEPT ![q.tail] = value],
            !.tail = IF q.tail + 1 < q.capacity THEN q.tail + 1 ELSE q.tail,
            !.size = q.size + 1,
            !.peak = IF q.size + 1 > q.peak THEN q.size + 1 ELSE q.peak]

\* push: a slot outside the buffer (capacity 0) is a property the array gains,
\* which no index of the model reads; the buffer is left as it is.
QueuePush(q, value) ==
  [q EXCEPT !.buffer = IF q.tail \in DOMAIN q.buffer
                         THEN [q.buffer EXCEPT ![q.tail] = value]
                         ELSE q.buffer,
            !.tail = (q.tail + 1) % q.capacity,
            !.size = q.size + 1,
            !.peak = IF q.size + 1 > q.peak THEN q.size + 1 ELSE q.peak]

\* pop: the new queue; QueueFront is the value pop returns.
QueuePop(q) ==
  [q EXCEPT !.head = (q.head + 1) % q.capacity, !.size = q.size - 1]

QueueFront(q) == q.buffer[q.head]

QueueClear(q) == [q EXCEPT !.head = 0, !.tail = 0, !.size = 0, !.peak = 0]

\* toArray: the queued values, oldest first, as a sequence.
QueueToArray(q) ==
  [i \in 1..q.size |-> q.buffer[(q.head + i - 1) % q.capacity]]

\* -------------------------------------------------------------------- Core
CoreWrap(addr, size) == ((addr % size) + size) % size

CoreClear(size) == [a \in 0..(size - 1) |-> INITIAL_INSTRUCTION]

CoreGet(c, addr) == c[CoreWrap(addr, ALen(c))]

CoreLoadInstructions(c, instructions, startAddr) ==
  LET size == ALen(c)
      \* the last instruction written to a cell wins
      Last(a) == CHOOSE i \in 1..Len(instructions) :
                   /\ (startAddr + i - 1) % size = a
                   /\ \A j \in 1..Len(instructions) :
                        (startAddr + j - 1) % size = a => j <= i
  IN  [a \in 0..(size - 1) |->
         IF \E i \in 1..Len(instructions) : (startAddr + i - 1) % size = a
           THEN instructions[Last(a)]
           ELSE c[a]]

\* ------------------------------------------------------------------ PSpace
computePSpaceSize(coreSize) ==
  LET divs == {i \in 1..16 : coreSize % i = 0}
      d == CHOOSE i \in divs : \A j \in divs : j <= i
  IN  coreSize \div d

NewPSpace(size, coreSize) ==
  [size |-> size, space |-> [i \in 0..(size - 1) |-> 0], lastResult |-> coreSize - 1]

PSpaceGet(ps, index) ==
  LET idx == index % ps.size IN IF idx = 0 THEN ps.lastResult ELSE ps.space[idx]

PSpaceSet(ps, index, value) ==
  LET idx == index % ps.size
  IN  IF idx = 0 THEN [ps EXCEPT !.lastResult = value]
      ELSE [ps EXCEPT !.space[idx] = value]

\* ------------------------------------------------------------- positioning
\* k steps of the generator.
RECURSIVE RngN(_, _)
RngN(seed, k) == IF k = 0 THEN seed ELSE rng(RngN(seed, k - 1))

\* posit's do-while loop, from the iteration that first draws for slot pos with
\* the budgets retries1 and retries2.  The iterations that stay at slot pos are
\* taken together: attempt k draws with the k-th seed after seed; with
\* retries2 = 0 the first overlap ends the loop, otherwise the overlap met with
\* retries1 = 0, which is attempt retries1 + 1, rolls back to the overlapped
\* slot.  The result's success flag is the one the source returns: TRUE where
\* the retry budget is exceeded, FALSE where the loop ends with every warrior
\* placed.
RECURSIVE positLoop(_, _, _, _, _, _, _, _)
positLoop(warriorCount, coreSize, separation, seed, positions, pos, retries1, retries2) ==
  LET Drawn(k) == (RngN(seed, k) % (coreSize - 2 * separation + 1)) + separation
      Overl(k) == {i \in 1..(pos - 1) : Abs(Drawn(k) - positions[i]) < separation}
      attempts == IF retries2 = 0 THEN 1 ELSE retries1 + 1
      free == {k \in 1..attempts : Overl(k) = {}}
      \* the state of the loop after attempt k, the last at slot pos
      After(k) ==
        [seed |-> RngN(seed, k),
         positions |-> [positions EXCEPT ![pos] = Drawn(k)],
         placed |-> Overl(k) = {},
         pos |-> IF Overl(k) = {} THEN pos + 1 ELSE Min(Overl(k)),
         retries1 |-> IF Overl(k) = {} THEN retries1 - (k - 1) ELSE RETRIES1,
         retries2 |-> IF Overl(k) = {} THEN retries2 ELSE retries2 - 1]
      Rest(st) ==
        IF st.placed
          THEN IF st.pos < warriorCount
                 THEN positLoop(warriorCount, coreSize, separation, st.seed, st.positions,
                                st.pos, st.retries1, st.retries2)
                 ELSE [success |-> FALSE, positions |-> st.positions, seed |-> st.seed]
          ELSE IF retries2 = 0
                 THEN [success |-> TRUE, positions |-> st.positions, seed |-> st.seed]
                 ELSE positLoop(warriorCount, coreSize, separation, st.seed, st.positions,
                                st.pos, st.retries1, st.retries2)
  IN  Let(After(IF free # {} THEN Min(free) ELSE attempts), Rest)

posit(warriorCount, coreSize, separation, seed, positions) ==
  positLoop(warriorCount, coreSize, separation, seed, positions, 1, RETRIES1, RETRIES2)

\* npos' insertion of temp among positions[1..i-1]: the inner loop from index j.
RECURSIVE nposInsert(_, _, _)
nposInsert(positions, j, temp) ==
  IF j > 0 /\ ~(temp > positions[j])
    THEN Let([positions EXCEPT ![j + 1] = positions[j]],
             LAMBDA shifted : nposInsert(shifted, j - 1, temp))
    ELSE [positions EXCEPT ![j + 1] = temp]

\* npos' first loop, from index i: the sorted random offsets.
RECURSIVE nposDraw(_, _, _, _, _)
nposDraw(warriorCount, room, seed, positions, i) ==
  IF i < warriorCount
    THEN Let(rng(seed), LAMBDA seed1 :
           Let(nposInsert(positions, i - 1, seed1 % room), LAMBDA inserted :
             nposDraw(warriorCount, room, seed1, inserted, i + 1)))
    ELSE [positions |-> positions, seed |-> seed]

\* npos' last loop, from index i: the shuffle.
RECURSIVE nposShuffle(_, _, _, _)
nposShuffle(warriorCount, seed, positions, i) ==
  IF i < warriorCount
    THEN Let(rng(seed), LAMBDA seed1 :
           LET j == (seed1 % (warriorCount - i)) + i
           IN  Let([positions EXCEPT ![j] = positions[i], ![i] = positions[j]],
                   LAMBDA swapped : nposShuffle(warriorCount, seed1, swapped, i + 1)))
    ELSE [positions |-> positions, seed |-> seed]

npos(warriorCount, coreSize, separation, seed, positions) ==
  LET room == coreSize - separation * warriorCount + 1
      \* positions[i] += tempSep, tempSep growing by separation each time
      Spread(drawn) == [i \in DOMAIN positions |->
                          IF i >= 1 THEN drawn.positions[i] + i * separation
                          ELSE drawn.positions[i]]
  IN  Let(nposDraw(warriorCount, room, seed, positions, 1), LAMBDA drawn :
        Let(Spread(drawn), LAMBDA spread :
          nposShuffle(warriorCount, drawn.seed, spread, 1)))

positionWarriors(warriorCount, coreSize, separation, seed) ==
  LET positions == [i \in 0..(warriorCount - 1) |-> 0]
  IN  IF warriorCount <= 1 THEN [positions |-> positions, seed |-> seed]
      ELSE IF warriorCount = 2
        THEN LET range == coreSize + 1 - 2 * separation
             IN  [positions |-> [positions EXCEPT ![1] = separation + (seed % range)],
                  seed |-> rng(seed)]
        ELSE Let(posit(warriorCount, coreSize, separation, seed, positions),
                 LAMBDA result :
                   IF result.success
                     THEN [positions |-> result.positions, seed |-> result.seed]
                     ELSE npos(warriorCount, coreSize, separation, result.seed,
                               result.positions))

\* ----------------------------------------------------------------- folding
fold(limit, cs, addr, progCnt) ==
  IF limit = 0 THEN addr
  ELSE LET r == (addr + cs - progCnt) % limit
           result == IF r > limit \div 2 THEN r + cs - limit ELSE r
       IN  addMod(result, progCnt, cs)

foldr(o, addr, progCnt) == fold(o.readLimit, o.coreSize, addr, progCnt)

\* A faulty fold, which leaves a write address as it is.
foldw_Unfolded(o, addr, progCnt) == addr

foldw(o, addr, progCnt) == fold(o.writeLimit, o.coreSize, addr, progCnt)

\* ------------------------------------------------------ operand resolution
SetAValue(c, addr, v) == [c EXCEPT ![CoreWrap(addr, ALen(c))].aValue = v]

SetBValue(c, addr, v) == [c EXCEPT ![CoreWrap(addr, ALen(c))].bValue = v]

FieldOf(c, addr, isAField) ==
  IF isAField THEN CoreGet(c, addr).aValue ELSE CoreGet(c, addr).bValue

\* A faulty write, which stores into the other field of the cell.
SetField_Other(c, addr, isAField, v) ==
  IF isAField THEN SetBValue(c, addr, v) ELSE SetAValue(c, addr, v)

SetField(c, addr, isAField, v) ==
  IF isAField THEN SetAValue(c, addr, v) ELSE SetBValue(c, addr, v)

IsAFieldMode(mode) ==
  mode \in {AddressMode_A_INDIRECT, AddressMode_A_PREDECR, AddressMode_A_POSTINC}

IsPredecr(mode) == mode \in {AddressMode_B_PREDECR, AddressMode_A_PREDECR}

IsPostinc(mode) == mode \in {AddressMode_B_POSTINC, AddressMode_A_POSTINC}

IsPlainIndirect(mode) == mode \in {AddressMode_A_INDIRECT, AddressMode_B_INDIRECT}

\* The A operand: the core after the pointer's pre-decrement or post-increment,
\* the resolved address, and the values AA_Value and irAValue.
EvalA(o, c, ir, progCnt) ==
  LET cs == o.coreSize IN
  IF ir.aMode # AddressMode_IMMEDIATE
    THEN LET addrA0 == foldr(o, addMod(ir.aValue, progCnt, cs), progCnt) IN
         IF ir.aMode # AddressMode_DIRECT
           THEN LET isAField == IsAFieldMode(ir.aMode)
                    waddrA == IF IsPlainIndirect(ir.aMode) THEN addrA0
                              ELSE foldw(o, addMod(ir.aValue, progCnt, cs), progCnt)
                    fieldPtr0 == FieldOf(c, IF IsPlainIndirect(ir.aMode) THEN addrA0 ELSE waddrA,
                                         isAField)
                    fieldPtr1 == IF IsPredecr(ir.aMode)
                                   THEN (IF fieldPtr0 - 1 < 0 THEN cs - 1 ELSE fieldPtr0 - 1)
                                   ELSE fieldPtr0
                    c1 == IF IsPredecr(ir.aMode) THEN SetField(c, waddrA, isAField, fieldPtr1)
                          ELSE c
                    addrABase == IF ~IsPlainIndirect(ir.aMode) THEN waddrA ELSE addrA0
                    addrA == foldr(o, addMod(fieldPtr1, addrABase, cs), progCnt)
                    fieldPtr2 == IF fieldPtr1 + 1 = cs THEN 0 ELSE fieldPtr1 + 1
                    c2 == IF IsPostinc(ir.aMode) THEN SetField(c1, waddrA, isAField, fieldPtr2)
                          ELSE c1
                IN  [core |-> c2, addrA |-> addrA,
                     AA_Value |-> CoreGet(c1, addrA).aValue,
                     irAValue |-> CoreGet(c1, addrA).bValue]
           ELSE [core |-> c, addrA |-> addrA0,
                 AA_Value |-> CoreGet(c, addrA0).aValue,
                 irAValue |-> CoreGet(c, addrA0).bValue]
    ELSE [core |-> c, addrA |-> progCnt, AA_Value |-> ir.aValue, irAValue |-> ir.bValue]

\* The B operand, on the core the A operand left: the write address addrB, the
\* read address raddrB, and the values AB_Value and irBValue.
EvalB(o, c, ir, progCnt) ==
  LET cs == o.coreSize IN
  IF ir.bMode # AddressMode_IMMEDIATE
    THEN LET raddrB0 == foldr(o, addMod(ir.bValue, progCnt, cs), progCnt)
             addrB0 == foldw(o, addMod(ir.bValue, progCnt, cs), progCnt)
             baseWriteAddrB == addrB0
         IN
         IF ir.bMode # AddressMode_DIRECT
           THEN LET isAField == IsAFieldMode(ir.bMode)
                    fieldPtr0 == FieldOf(c, IF IsPlainIndirect(ir.bMode) THEN raddrB0 ELSE addrB0,
                                         isAField)
                    fieldPtr1 == IF IsPredecr(ir.bMode)
                                   THEN (IF fieldPtr0 - 1 < 0 THEN cs - 1 ELSE fieldPtr0 - 1)
                                   ELSE fieldPtr0
                    c1 == IF IsPredecr(ir.bMode) THEN SetField(c, addrB0, isAField, fieldPtr1)
                          ELSE c
                    raddrBBase == IF ~IsPlainIndirect(ir.bMode) THEN addrB0 ELSE raddrB0
                    addrB == foldw(o, addMod(fieldPtr1, addrB0, cs), progCnt)
                    raddrB == foldr(o, addMod(fieldPtr1, raddrBBase, cs), progCnt)
                    fieldPtr2 == IF fieldPtr1 + 1 = cs THEN 0 ELSE fieldPtr1 + 1
                    c2 == IF IsPostinc(ir.bMode)
                            THEN SetField(c1, baseWriteAddrB, isAField, fieldPtr2)
                            ELSE c1
                IN  [core |-> c2, addrB |-> addrB, raddrB |-> raddrB,
                     AB_Value |-> CoreGet(c1, raddrB).aValue,
                     irBValue |-> CoreGet(c1, raddrB).bValue]
           ELSE [core |-> c, addrB |-> addrB0, raddrB |-> raddrB0,
                 AB_Value |-> CoreGet(c, raddrB0).aValue,
                 irBValue |-> CoreGet(c, raddrB0).bValue]
    ELSE [core |-> c, addrB |-> progCnt, raddrB |-> progCnt,
          AB_Value |-> CoreGet(c, progCnt).aValue,
          irBValue |-> CoreGet(c, progCnt).bValue]

\* ------------------------------------------------------------ the opcodes
execMOV(c, mod, addrA, addrB, AA, AVal) ==
  CASE mod = Modifier_A -> SetAValue(c, addrB, AA)
    [] mod = Modifier_B -> SetBValue(c, addrB, AVal)
    [] mod = Modifier_AB -> SetBValue(c, addrB, AA)
    [] mod = Modifier_BA -> SetAValue(c, addrB, AVal)
    [] mod = Modifier_F -> SetBValue(SetAValue(c, addrB, AA), addrB, AVal)
    [] mod = Modifier_X -> SetAValue(SetBValue(c, addrB, AA), addrB, AVal)
    [] mod = Modifier_I ->
         LET src == CoreGet(c, addrA)
         IN  [c EXCEPT ![CoreWrap(addrB, ALen(c))] =
                [opcode |-> src.opcode, aMode |-> src.aMode, bMode |-> src.bMode,
                 aValue |-> AA, bValue |-> AVal]]
    [] OTHER -> c

\* execADD, execSUB and execMUL, which differ in the operation only.
execArith(op, c, mod, addrB, AA, AVal, AB, BVal, cs) ==
  LET Op(x, y, m) == CASE op = Opcode_ADD -> addMod(x, y, m)
                       [] op = Opcode_SUB -> subMod(x, y, m)
                       [] op = Opcode_MUL -> mulMod(x, y, m)
  IN
  CASE mod = Modifier_A -> SetAValue(c, addrB, Op(AB, AA, cs))
    [] mod = Modifier_B -> SetBValue(c, addrB, Op(BVal, AVal, cs))
    [] mod = Modifier_AB -> SetBValue(c, addrB, Op(BVal, AA, cs))
    [] mod = Modifier_BA -> SetAValue(c, addrB, Op(AB, AVal, cs))
    [] mod \in {Modifier_F, Modifier_I} ->
         SetBValue(SetAValue(c, addrB, Op(AB, AA, cs)), addrB, Op(BVal, AVal, cs))
    [] mod = Modifier_X ->
         SetAValue(SetBValue(c, addrB, Op(BVal, AA, cs)), addrB, Op(AB, AVal, cs))
    [] OTHER -> c

execADD(c, mod, addrB, AA, AVal, AB, BVal, cs) ==
  execArith(Opcode_ADD, c, mod, addrB, AA, AVal, AB, BVal, cs)

execSUB(c, mod, addrB, AA, AVal, AB, BVal, cs) ==
  execArith(Opcode_SUB, c, mod, addrB, AA, AVal, AB, BVal, cs)

execMUL(c, mod, addrB, AA, AVal, AB, BVal, cs) ==
  execArith(Opcode_MUL, c, mod, addrB, AA, AVal, AB, BVal, cs)

\* A faulty DIV/MOD, which gives up at the first zero divisor: with F, I and
\* X nothing is written once either divisor is zero.
execDivMod_StopAtZero(op, c, mod, addrB, AA, AVal, AB, BVal) ==
  LET Op(x, y) == IF op = Opcode_DIV THEN x \div y ELSE x % y
      Die(cc) == [core |-> cc, died |-> TRUE]
      Live(cc) == [core |-> cc, died |-> FALSE]
  IN
  CASE mod = Modifier_A ->
         IF AA = 0 THEN Die(c) ELSE Live(SetAValue(c, addrB, Op(AB, AA)))
    [] mod = Modifier_B ->
         IF AVal = 0 THEN Die(c) ELSE Live(SetBValue(c, addrB, Op(BVal, AVal)))
    [] mod = Modifier_AB ->
         IF AA = 0 THEN Die(c) ELSE Live(SetBValue(c, addrB, Op(BVal, AA)))
    [] mod = Modifier_BA ->
         IF AVal = 0 THEN Die(c) ELSE Live(SetAValue(c, addrB, Op(AB, AVal)))
    [] mod \in {Modifier_F, Modifier_I} ->
         IF AA = 0 \/ AVal = 0 THEN Die(c)
         ELSE Live(SetBValue(SetAValue(c, addrB, Op(AB, AA)), addrB, Op(BVal, AVal)))
    [] mod = Modifier_X ->
         IF AA = 0 \/ AVal = 0 THEN Die(c)
         ELSE Live(SetBValue(SetAValue(c, addrB, Op(AB, AVal)), addrB, Op(BVal, AA)))
    [] OTHER -> Live(c)

\* execDIV and execMOD, which differ in the operation only: the core and
\* whether the task died.
execDivMod(op, c, mod, addrB, AA, AVal, AB, BVal) ==
  LET Op(x, y) == IF op = Opcode_DIV THEN x \div y ELSE x % y
      Die(cc) == [core |-> cc, died |-> TRUE]
      Live(cc) == [core |-> cc, died |-> FALSE]
  IN
  CASE mod = Modifier_A ->
         IF AA = 0 THEN Die(c) ELSE Live(SetAValue(c, addrB, Op(AB, AA)))
    [] mod = Modifier_B ->
         IF AVal = 0 THEN Die(c) ELSE Live(SetBValue(c, addrB, Op(BVal, AVal)))
    [] mod = Modifier_AB ->
         IF AA = 0 THEN Die(c) ELSE Live(SetBValue(c, addrB, Op(BVal, AA)))
    [] mod = Modifier_BA ->
         IF AVal = 0 THEN Die(c) ELSE Live(SetAValue(c, addrB, Op(AB, AVal)))
    [] mod \in {Modifier_F, Modifier_I} ->
         IF AA # 0
           THEN LET c1 == SetAValue(c, addrB, Op(AB, AA))
                IN  IF AVal = 0 THEN Die(c1)
                    ELSE Live(SetBValue(c1, addrB, Op(BVal, AVal)))
           ELSE IF AVal = 0 THEN Die(c)
                ELSE Die(SetBValue(c, addrB, Op(BVal, AVal)))
    [] mod = Modifier_X ->
         IF AVal # 0
           THEN LET c1 == SetAValue(c, addrB, Op(AB, AVal))
                IN  IF AA = 0 THEN Die(c1)
                    ELSE Live(SetBValue(c1, addrB, Op(BVal, AA)))
           ELSE IF AA = 0 THEN Die(c)
                ELSE Die(SetBValue(c, addrB, Op(BVal, AA)))
    [] OTHER -> Live(c)

execDIV(c, mod, addrB, AA, AVal, AB, BVal) ==
  execDivMod(Opcode_DIV, c, mod, addrB, AA, AVal, AB, BVal)

execMOD(c, mod, addrB, AA, AVal, AB, BVal) ==
  execDivMod(Opcode_MOD, c, mod, addrB, AA, AVal, AB, BVal)

checkJMZ(mod, AB, BVal) ==
  CASE mod \in {Modifier_A, Modifier_BA} -> AB = 0
    [] mod \in {Modifier_B, Modifier_AB} -> BVal = 0
    [] OTHER -> AB = 0 /\ BVal = 0

checkJMN(mod, AB, BVal) ==
  CASE mod \in {Modifier_A, Modifier_BA} -> AB # 0
    [] mod \in {Modifier_B, Modifier_AB} -> BVal # 0
    [] OTHER -> AB # 0 \/ BVal # 0

DecWrap(v, cs1) == IF v - 1 < 0 THEN cs1 ELSE v - 1

\* execDJN: the core with the field(s) of core[addrB] decremented, and whether
\* to jump.
execDJN(c, mod, addrB, AB, BVal, cs1) ==
  LET dst == CoreGet(c, addrB) IN
  CASE mod \in {Modifier_A, Modifier_BA} ->
         [core |-> SetAValue(c, addrB, DecWrap(dst.aValue, cs1)), jump |-> AB # 1]
    [] mod \in {Modifier_B, Modifier_AB} ->
         [core |-> SetBValue(c, addrB, DecWrap(dst.bValue, cs1)), jump |-> BVal # 1]
    [] OTHER ->
         [core |-> SetAValue(SetBValue(c, addrB, DecWrap(dst.bValue, cs1)),
                             addrB, DecWrap(dst.aValue, cs1)),
          jump |-> ~(AB = 1 /\ BVal = 1)]

checkCMP(c, mod, addrA, raddrB, AA, AVal, AB, BVal) ==
  CASE mod = Modifier_A -> AB = AA
    [] mod = Modifier_B -> BVal = AVal
    [] mod = Modifier_AB -> BVal = AA
    [] mod = Modifier_BA -> AB = AVal
    [] mod = Modifier_F -> AB = AA /\ BVal = AVal
    [] mod = Modifier_X -> BVal = AA /\ AB = AVal
    [] OTHER ->
         LET a == CoreGet(c, addrA)
             b == CoreGet(c, raddrB)
         IN  /\ a.opcode = b.opcode /\ a.aMode = b.aMode /\ a.bMode = b.bMode
             /\ AA = AB /\ AVal = BVal

checkSLT(mod, AA, AVal, AB, BVal) ==
  CASE mod = Modifier_A -> AA < AB
    [] mod = Modifier_B -> AVal < BVal
    [] mod = Modifier_AB -> AA < BVal
    [] mod = Modifier_BA -> AVal < AB
    [] mod \in {Modifier_F, Modifier_I} -> AA < AB /\ AVal < BVal
    [] OTHER -> AA < BVal /\ AVal < AB

\* execLDP's pget: index 0 (mod size) is the warrior's lastResult.
PSpaceClear(ps) == [ps EXCEPT !.space = [i \in DOMAIN ps.space |-> 0]]

PSpaceClearKeepResult(ps) == [ps EXCEPT !.space = [i \in DOMAIN ps.space |-> 0]]

pget(ps, w, index) ==
  IF index % ps.size = 0 THEN w.lastResult ELSE PSpaceGet(ps, index)

execLDP(c, mod, addrB, AA, AVal, w, ps) ==
  CASE mod = Modifier_A -> SetAValue(c, addrB, pget(ps, w, AA))
    [] mod = Modifier_AB -> SetBValue(c, addrB, pget(ps, w, AA))
    [] mod = Modifier_BA -> SetAValue(c, addrB, pget(ps, w, AVal))
    [] OTHER -> SetBValue(c, addrB, pget(ps, w, AVal))

\* A faulty pset, which stores every index through the PSpace object.
pset_Shared(ps, w, index, value) ==
  [lastResult |-> w.lastResult, ps |-> PSpaceSet(ps, index, value)]

\* execSTP's pset: the warrior's lastResult and its PSpace after the store.
pset(ps, w, index, value) ==
  IF index % ps.size = 0
    THEN [lastResult |-> value, ps |-> ps]
    ELSE [lastResult |-> w.lastResult, ps |-> PSpaceSet(ps, index, value)]

execSTP(mod, AA, AVal, AB, BVal, w, ps) ==
  CASE mod = Modifier_A -> pset(ps, w, AB, AA)
    [] mod = Modifier_AB -> pset(ps, w, BVal, AA)
    [] mod = Modifier_BA -> pset(ps, w, AB, AVal)
    [] OTHER -> pset(ps, w, BVal, AVal)

\* -------------------------------------------------------------- SimWarrior
NewSimWarrior(id, data, maxProcesses, maxWarriors, coreSize) ==
  [id |-> id,
   processQueue |-> NewQueue(maxProcesses + 1),
   position |-> 0,
   startOffset |-> data.startOffset,
   tasks |-> 0,
   score |-> [k \in 0..(maxWarriors * 2 - 2) |-> 0],
   lastResult |-> coreSize - 1,
   pSpaceIndex |-> id,
   pSpaceIDNumber |-> IF data.pin = Null THEN id ELSE data.pin,
   alive |-> TRUE]

\* A faulty reset, which also gives lastResult its initial value.
WarriorReset_ResetsResult(w, position, coreSize) ==
  [w EXCEPT !.processQueue = QueuePush(QueueClear(@),
                                       CoreWrap(position + w.startOffset, coreSize)),
            !.position = position,
            !.tasks = 1,
            !.alive = TRUE,
            !.lastResult = coreSize - 1]

\* A faulty reset, which queues the start address behind what the queue holds.
WarriorReset_NoClear(w, position, coreSize) ==
  [w EXCEPT !.processQueue = QueuePush(@, CoreWrap(position + w.startOffset, coreSize)),
            !.position = position,
            !.tasks = 1,
            !.alive = TRUE]

WarriorReset(w, position, coreSize) ==
  LET startAddr == (position + w.startOffset) % coreSize
  IN  [w EXCEPT !.processQueue = QueuePush(QueueClear(@),
                                           IF startAddr < 0 THEN startAddr + coreSize
                                           ELSE startAddr),
                !.position = position,
                !.tasks = 1,
                !.alive = TRUE]

pushProcess(w, addr) == [w EXCEPT !.processQueue = QueuePush(@, addr)]

\* score[idx]++ : an index outside the array gives the array a NaN property
\* and leaves its elements as they are.
ScoreIncr(score, idx) ==
  IF idx \in DOMAIN score THEN [score EXCEPT ![idx] = @ + 1] ELSE score

\* --------------------------------------------------------------- Simulator
\* A Simulator's fields as a record s: options, warriorData, core, warriors,
\* pSpaces, currentWarriorIdx, warriorsLeft, cycle, roundNum, totalCycles,
\* seed, initialized, nextWarrior, prevWarrior; and, for the properties, the
\* history field executed: the cycles executed since the last setupRound, each
\* with the warrior that ran, the program counter it popped and the warriors
\* alive after it.

NewSimulator(options) ==
  [options |-> options,
   warriorData |-> << >>,
   core |-> CoreClear(options.coreSize),
   warriors |-> << >>,
   pSpaces |-> << >>,
   currentWarriorIdx |-> 0,
   warriorsLeft |-> 0,
   cycle |-> 0,
   roundNum |-> 0,
   totalCycles |-> 0,
   seed |-> 0,
   initialized |-> FALSE,
   nextWarrior |-> << >>,
   prevWarrior |-> << >>,
   executed |-> << >>]

\* A faulty choice, which takes the nearest earlier warrior with the same pin.
SharedPSpaceIndex_Nearest(data, i) ==
  LET same == {j \in 0..(i - 1) : data[j].pin # Null /\ data[j].pin = data[i].pin}
  IN  IF data[i].pin # Null /\ same # {} THEN -Min({-j : j \in same}) ELSE i

\* The pSpaceIndex loadWarriors gives warrior i: the first earlier warrior
\* with the same non-null pin, else i.
SharedPSpaceIndex(data, i) ==
  LET same == {j \in 0..(i - 1) : data[j].pin # Null /\ data[j].pin = data[i].pin}
  IN  IF data[i].pin # Null /\ same # {} THEN Min(same) ELSE i

\* loadWarriors, with the warriors as a 0-based array.
loadWarriors(s, data) ==
  LET n == ALen(data)
      coreSize == s.options.coreSize
      sep1 == IF s.options.minSeparation < s.options.maxLength
                THEN s.options.maxLength ELSE s.options.minSeparation
      sep2 == IF n > 1 /\ coreSize < n * sep1 THEN coreSize \div n ELSE sep1
      pSpaceSize == IF s.options.pSpaceSize > 0 THEN s.options.pSpaceSize
                    ELSE computePSpaceSize(coreSize)
  IN  [s EXCEPT
         !.warriorData = data,
         !.options = [@ EXCEPT !.minSeparation = sep2],
         !.warriors = [i \in 0..(n - 1) |->
                         [NewSimWarrior(i, data[i], s.options.maxProcesses, n, coreSize)
                            EXCEPT !.pSpaceIndex = SharedPSpaceIndex(data, i)]],
         !.pSpaces = [i \in 0..(n - 1) |-> NewPSpace(pSpaceSize, coreSize)],
         !.initialized = TRUE]

\* The fields of every instruction of every warrior, in checksum order.
RECURSIVE InstructionFields(_)
InstructionFields(insts) ==
  IF insts = << >> THEN << >>
  ELSE << Head(insts).opcode, Head(insts).aMode, Head(insts).bMode,
          Head(insts).aValue, Head(insts).bValue >> \o InstructionFields(Tail(insts))

RECURSIVE WarriorFields(_, _)
WarriorFields(data, i) ==
  IF i >= ALen(data) THEN << >>
  ELSE InstructionFields(data[i].instructions) \o WarriorFields(data, i + 1)

\* checksum += field ^ shuffle++, over the fields from the k-th on.
RECURSIVE ChecksumFrom(_, _)
ChecksumFrom(fields, k) ==
  IF k > Len(fields) THEN 0
  ELSE XorNat(fields[k], k - 1) + ChecksumFrom(fields, k + 1)

checksumWarriors(s) == ChecksumFrom(WarriorFields(s.warriorData, 0), 1)

\* setupRound's loop over the warriors, from warrior i: the core with the
\* warriors' instructions loaded in index order.
RECURSIVE LoadAll(_, _, _, _)
LoadAll(c, data, positions, i) ==
  IF i >= ALen(data) THEN c
  ELSE Let(CoreLoadInstructions(c, data[i].instructions, positions[i]),
           LAMBDA c1 : LoadAll(c1, data, positions, i + 1))

\* A faulty starter, which is warrior 0 in every round.
Starter_First(roundNum, n) == 0

\* The starter of the round: it rotates each round.
Starter(roundNum, n) == (roundNum - 1) % n

\* A faulty initial seed, taken from the clock where the options give none.
InitialSeed_Clock(s) == IF s.options.seed = Null THEN s.clock ELSE s.options.seed

\* The value the first round's seed is derived from: options.seed ?? checksum.
InitialSeed(s) == IF s.options.seed = Null THEN checksumWarriors(s) ELSE s.options.seed

\* setupRound, where it does not throw.
setupRound(s) ==
  LET n == ALen(s.warriors)
      coreSize == s.options.coreSize
      roundNum == s.roundNum + 1
      seed0 == IF s.seed = 0 THEN rng(InitialSeed(s)) ELSE s.seed
  IN  Let(seed0, LAMBDA sd :
      Let(positionWarriors(n, coreSize, s.options.minSeparation, sd), LAMBDA placed :
      [s EXCEPT
         !.core = LoadAll(CoreClear(coreSize), s.warriorData, placed.positions, 0),
         !.roundNum = roundNum,
         !.seed = placed.seed,
         !.warriorsLeft = n,
         !.totalCycles = n * s.options.maxCycles,
         !.cycle = n * s.options.maxCycles,
         !.nextWarrior = [i \in 0..(n - 1) |-> (i + 1) % n],
         !.prevWarrior = [i \in 0..(n - 1) |-> (i - 1 + n) % n],
         !.warriors = [i \in 0..(n - 1) |->
                         WarriorReset(s.warriors[i], placed.positions[i], coreSize)],
         !.currentWarriorIdx = Starter(roundNum, n),
         !.executed = << >>]))

setupRoundThrows(s) == ~s.initialized \/ ALen(s.warriors) = 0

\* A faulty SPL, which queues the target without counting the new task.
ExecSPL_NoCount(w, nextAddr, addrA, maxProcesses) ==
  LET w1 == pushProcess(w, nextAddr)
  IN  IF w1.tasks < maxProcesses THEN pushProcess(w1, addrA) ELSE w1

\* A faulty SPL, which splits whatever the number of tasks.
ExecSPL_NoLimit(w, nextAddr, addrA, maxProcesses) ==
  pushProcess([pushProcess(w, nextAddr) EXCEPT !.tasks = @ + 1], addrA)

\* A faulty SPL, which still splits with maxProcesses tasks.
ExecSPL_OffByOne(w, nextAddr, addrA, maxProcesses) ==
  LET w1 == pushProcess(w, nextAddr)
  IN  IF w1.tasks <= maxProcesses
        THEN pushProcess([w1 EXCEPT !.tasks = @ + 1], addrA)
        ELSE w1

\* SPL: push PC+1; below maxProcesses, one more task and push the target.
ExecSPL(w, nextAddr, addrA, maxProcesses) ==
  LET w1 == pushProcess(w, nextAddr)
  IN  IF w1.tasks < maxProcesses
        THEN pushProcess([w1 EXCEPT !.tasks = @ + 1], addrA)
        ELSE w1

\* The switch on the opcode, for warrior w (its program counter popped) with
\* the operands a and b resolved: the core, the warrior, the P-spaces, and the
\* flags died and pushNext with nextAddr.
Dispatch(s, w, progCnt, ir, a, b) ==
  LET o == s.options
      cs == o.coreSize
      op == decodeOpcode(ir.opcode).opcode
      mod == decodeOpcode(ir.opcode).modifier
      c == b.core
      AA == a.AA_Value
      AVal == a.irAValue
      AB == b.AB_Value
      BVal == b.irBValue
      next1 == addMod(progCnt, 1, cs)
      next2 == addMod(progCnt, 2, cs)
      base == [core |-> c, w |-> w, pSpaces |-> s.pSpaces, died |-> FALSE,
               pushNext |-> TRUE, nextAddr |-> next1]
      Jump(cc, taken) == IF taken
                           THEN [base EXCEPT !.core = cc, !.w = pushProcess(w, a.addrA),
                                             !.pushNext = FALSE]
                           ELSE [base EXCEPT !.core = cc]
      Skip(taken) == IF taken THEN [base EXCEPT !.nextAddr = next2] ELSE base
  IN
  CASE op = Opcode_MOV -> [base EXCEPT !.core = execMOV(c, mod, a.addrA, b.addrB, AA, AVal)]
    [] op = Opcode_ADD ->
         [base EXCEPT !.core = execADD(c, mod, b.addrB, AA, AVal, AB, BVal, cs)]
    [] op = Opcode_SUB ->
         [base EXCEPT !.core = execSUB(c, mod, b.addrB, AA, AVal, AB, BVal, cs)]
    [] op = Opcode_MUL ->
         [base EXCEPT !.core = execMUL(c, mod, b.addrB, AA, AVal, AB, BVal, cs)]
    [] op = Opcode_DIV ->
         LET r == execDIV(c, mod, b.addrB, AA, AVal, AB, BVal)
         IN  [base EXCEPT !.core = r.core, !.died = r.died]
    [] op = Opcode_MOD ->
         LET r == execMOD(c, mod, b.addrB, AA, AVal, AB, BVal)
         IN  [base EXCEPT !.core = r.core, !.died = r.died]
    [] op = Opcode_JMP -> Jump(c, TRUE)
    [] op = Opcode_JMZ -> Jump(c, checkJMZ(mod, AB, BVal))
    [] op = Opcode_JMN -> Jump(c, checkJMN(mod, AB, BVal))
    [] op = Opcode_DJN ->
         LET r == execDJN(c, mod, b.addrB, AB, BVal, cs - 1)
         IN  Jump(r.core, r.jump)
    [] op \in {Opcode_CMP, Opcode_SEQ} ->
         Skip(checkCMP(c, mod, a.addrA, b.raddrB, AA, AVal, AB, BVal))
    [] op = Opcode_SNE ->
         Skip(~checkCMP(c, mod, a.addrA, b.raddrB, AA, AVal, AB, BVal))
    [] op = Opcode_SLT -> Skip(checkSLT(mod, AA, AVal, AB, BVal))
    [] op = Opcode_SPL ->
         [base EXCEPT !.w = ExecSPL(w, next1, a.addrA, o.maxProcesses),
                      !.pushNext = FALSE]
    [] op = Opcode_DAT -> [base EXCEPT !.died = TRUE]
    [] op = Opcode_LDP ->
         [base EXCEPT !.core = execLDP(c, mod, b.addrB, AA, AVal, w,
                                       s.pSpaces[w.pSpaceIndex])]
    [] op = Opcode_STP ->
         LET r == execSTP(mod, AA, AVal, AB, BVal, w, s.pSpaces[w.pSpaceIndex])
         IN  [base EXCEPT !.w = [w EXCEPT !.lastResult = r.lastResult],
                          !.pSpaces = [s.pSpaces EXCEPT ![w.pSpaceIndex] = r.ps]]
    [] OTHER -> base

\* A faulty deduction, which divides by the number of warriors left after the death.
CycleAfterDeath_Decremented(cycle, warriorsLeft) ==
  cycle - 1 - ((cycle - 1) \div (warriorsLeft - 1))

\* A faulty deduction, which takes nothing away for the warrior that died.
CycleAfterDeath_Kept(cycle, warriorsLeft) == cycle

\* The remaining-cycle counter when a warrior dies with warriorsLeft alive.
CycleAfterDeath(cycle, warriorsLeft) == cycle - 1 - ((cycle - 1) \div warriorsLeft)

\* A faulty unlink, which leaves the successor's back pointer on the warrior removed.
Unlink_NextOnly(nextWarrior, prevWarrior, cur) ==
  [nextWarrior |-> [nextWarrior EXCEPT ![prevWarrior[cur]] = nextWarrior[cur]],
   prevWarrior |-> prevWarrior]

\* A faulty unlink, which leaves the predecessor's next pointer on the warrior removed.
Unlink_PrevOnly(nextWarrior, prevWarrior, cur) ==
  [nextWarrior |-> nextWarrior,
   prevWarrior |-> [prevWarrior EXCEPT ![nextWarrior[cur]] = prevWarrior[cur]]]

\* The alive ring with warrior cur removed.
Unlink(nextWarrior, prevWarrior, cur) ==
  LET next1 == [nextWarrior EXCEPT ![prevWarrior[cur]] = nextWarrior[cur]]
      prev1 == [prevWarrior EXCEPT ![next1[cur]] = prevWarrior[cur]]
  IN  [nextWarrior |-> next1, prevWarrior |-> prev1]

\* A faulty advance, which moves on from the successor of a warrior that died.
Advance_Always(alive, nextWarrior, cur) == nextWarrior[cur]

\* The warrior to run next, cur being the warrior that ran: a warrior that
\* died has been replaced by its successor already.
Advance(alive, nextWarrior, cur) == IF alive THEN nextWarrior[cur] ELSE cur

AliveSet(warriors) == {i \in DOMAIN warriors : warriors[i].alive}

\* A faulty count, which is not taken down when a warrior dies.
WarriorsLeftAfter_Kept(gone, warriorsLeft) == warriorsLeft

\* warriorsLeft after a cycle in which the warrior is gone or not.
WarriorsLeftAfter(gone, warriorsLeft) == IF gone THEN warriorsLeft - 1 ELSE warriorsLeft

\* executeOneCycle: one instruction of the current warrior.
executeOneCycle(s) ==
  LET n == ALen(s.warriors)
      idx == s.currentWarriorIdx
      w0 == s.warriors[idx]
      progCnt == QueueFront(w0.processQueue)
      w == [w0 EXCEPT !.processQueue = QueuePop(@)]
      ir == CoreGet(s.core, progCnt)
  IN
  Let(EvalA(s.options, s.core, ir, progCnt), LAMBDA a :
  Let(EvalB(s.options, a.core, ir, progCnt), LAMBDA b :
  Let(Dispatch(s, w, progCnt, ir, a, b), LAMBDA r :
  LET w2 == IF r.died THEN [r.w EXCEPT !.tasks = @ - 1] ELSE r.w
      gone == r.died /\ w2.tasks <= 0
      w3 == IF gone
              THEN [w2 EXCEPT !.alive = FALSE,
                              !.score = ScoreIncr(@, s.warriorsLeft + n - 2)]
              ELSE w2
      ring == IF gone THEN Unlink(s.nextWarrior, s.prevWarrior, idx)
              ELSE [nextWarrior |-> s.nextWarrior, prevWarrior |-> s.prevWarrior]
      cur1 == IF gone THEN ring.nextWarrior[idx] ELSE idx
      w4 == IF r.pushNext /\ ~r.died THEN pushProcess(w3, r.nextAddr) ELSE w3
      warriors1 == [s.warriors EXCEPT ![idx] = w4]
  IN  [s EXCEPT
         !.core = r.core,
         !.pSpaces = r.pSpaces,
         !.warriors = warriors1,
         !.cycle = (IF gone THEN CycleAfterDeath(s.cycle, s.warriorsLeft) ELSE s.cycle) - 1,
         !.warriorsLeft = WarriorsLeftAfter(gone, s.warriorsLeft),
         !.nextWarrior = ring.nextWarrior,
         !.prevWarrior = ring.prevWarrior,
         !.currentWarriorIdx = Advance(w4.alive, ring.nextWarrior, cur1),
         !.executed = Append(@, [w |-> idx, pc |-> progCnt, alive |-> AliveSet(warriors1)])])))

\* endRound's loop over the warriors: the scores, lastResult and the P-spaces'
\* lastResult (written in index order, so the last warrior using a P-space
\* decides it).
\* A faulty loop, which leaves a dead warrior's lastResult as it was.
EndRoundWarrior_KeepDead(w, warriorsLeft) ==
  IF w.alive
    THEN [w EXCEPT !.score = ScoreIncr(@, warriorsLeft - 1), !.lastResult = warriorsLeft]
    ELSE w

EndRoundWarrior(w, warriorsLeft) ==
  IF w.alive
    THEN [w EXCEPT !.score = ScoreIncr(@, warriorsLeft - 1), !.lastResult = warriorsLeft]
    ELSE [w EXCEPT !.lastResult = 0]

EndRoundPSpaces(s) ==
  [k \in DOMAIN s.pSpaces |->
     LET users == {i \in DOMAIN s.warriors : s.warriors[i].pSpaceIndex = k}
         last == CHOOSE i \in users : \A j \in users : j <= i
     IN  IF users = {} THEN s.pSpaces[k]
         ELSE [s.pSpaces[k] EXCEPT
                 !.lastResult = IF s.warriors[last].alive THEN s.warriorsLeft ELSE 0]]

\* A faulty result, which names the first warrior the winner.
RoundResult_First(s) ==
  IF s.warriorsLeft = 1
    THEN [winnerId |-> s.warriors[0].id, outcome |-> "WIN"]
    ELSE [winnerId |-> Null, outcome |-> "TIE"]

\* The RoundResult endRound returns.
RoundResult(s) ==
  LET alive == AliveSet(s.warriors)
  IN  IF s.warriorsLeft = 1 /\ alive # {}
        THEN [winnerId |-> s.warriors[Min(alive)].id, outcome |-> "WIN"]
        ELSE [winnerId |-> Null, outcome |-> "TIE"]

endRound(s) ==
  [sim |-> [s EXCEPT
              !.warriors = [i \in DOMAIN s.warriors |->
                              EndRoundWarrior(s.warriors[i], s.warriorsLeft)],
              !.pSpaces = EndRoundPSpaces(s)],
   result |-> RoundResult(s)]

\* A faulty test, which ignores the cycles left.
RoundOver_NoCycleLimit(s) == s.warriorsLeft < 2

\* A faulty test, which ignores the warriors left.
RoundOver_CyclesOnly(s) == s.cycle <= 0

\* The test step makes before and after a cycle.
RoundOver(s) == s.cycle <= 0 \/ s.warriorsLeft < 2

\* step() returning null.
NoResult == [winnerId |-> Null, outcome |-> "null"]

\* A faulty step, which does not look at the round after its cycle.
step_NoEndCheck(s) ==
  IF RoundOver(s) THEN endRound(s)
  ELSE [sim |-> executeOneCycle(s), result |-> NoResult]

step(s) ==
  IF RoundOver(s) THEN endRound(s)
  ELSE Let(executeOneCycle(s), LAMBDA s1 :
         IF RoundOver(s1) THEN endRound(s1)
         ELSE [sim |-> s1, result |-> NoResult])

\* runRound's while loop.
RECURSIVE RunCycles(_)
RunCycles(s) ==
  IF s.cycle > 0 /\ s.warriorsLeft >= 2
    THEN Let(executeOneCycle(s), LAMBDA s1 : RunCycles(s1))
    ELSE s

runRound(s) ==
  Let(setupRound(s), LAMBDA s0 : Let(RunCycles(s0), LAMBDA s1 : endRound(s1)))

\* ------------------------------------------------------------- the inputs
\* The option sets a Simulator is constructed with.
OptionChoices ==
  {[coreSize |-> CoreSize, maxCycles |-> MaxCycles, maxLength |-> 2,
    maxProcesses |-> mp, minSeparation |-> 1,
    readLimit |-> lim[1], writeLimit |-> lim[2], pSpaceSize |-> ps, seed |-> sd] :
     mp \in {0, 1, MaxProcesses},
     lim \in {<<0, 0>>, <<4, 2>>}, ps \in {0, 2}, sd \in {Null, 3}}

Warrior(instructions, startOffset, pin) ==
  [instructions |-> instructions, startOffset |-> startOffset, pin |-> pin]

Ins(op, mod, aMode, aValue, bMode, bValue) ==
  createInstruction(op, mod, aMode, aValue, bMode, bValue)

\* MOV.I $0, $1
Imp == Warrior(<<Ins(Opcode_MOV, Modifier_I, AddressMode_DIRECT, 0, AddressMode_DIRECT, 1)>>,
               0, Null)

\* DAT.F #0, #0
Dat == Warrior(<<Ins(Opcode_DAT, Modifier_F, AddressMode_IMMEDIATE, 0,
                     AddressMode_IMMEDIATE, 0)>>, 0, Null)

\* JMP.B $0, $0
Loop == Warrior(<<Ins(Opcode_JMP, Modifier_B, AddressMode_DIRECT, 0, AddressMode_DIRECT, 0)>>,
                0, Null)

\* SPL.B $0, $0 ; JMP.B $-1, $0
SplLoop ==
  Warrior(<<Ins(Opcode_SPL, Modifier_B, AddressMode_DIRECT, 0, AddressMode_DIRECT, 0),
            Ins(Opcode_JMP, Modifier_B, AddressMode_DIRECT, CoreSize - 1,
                AddressMode_DIRECT, 0)>>, 0, Null)

\* SPL.B $0, $0 ; SPL.B $0, $0
SplSpl ==
  Warrior(<<Ins(Opcode_SPL, Modifier_B, AddressMode_DIRECT, 0, AddressMode_DIRECT, 0),
            Ins(Opcode_SPL, Modifier_B, AddressMode_DIRECT, 0, AddressMode_DIRECT, 0)>>,
          0, Null)

\* SPL.B $1, $0 ; DAT.F #0, #0, started at the SPL
SplDat ==
  Warrior(<<Ins(Opcode_SPL, Modifier_B, AddressMode_DIRECT, 1, AddressMode_DIRECT, 0),
            Ins(Opcode_DAT, Modifier_F, AddressMode_IMMEDIATE, 0, AddressMode_IMMEDIATE, 0)>>,
          0, Null)

\* NOP.F $0, $0 ; DIV.AB #0, $1, started at the NOP
NopDiv ==
  Warrior(<<Ins(Opcode_NOP, Modifier_F, AddressMode_DIRECT, 0, AddressMode_DIRECT, 0),
            Ins(Opcode_DIV, Modifier_AB, AddressMode_IMMEDIATE, 0, AddressMode_DIRECT, 1)>>,
          0, Null)

\* DJN.B $0, #2 ; JMZ.F $-1, <1, started at the DJN
DjnJmz ==
  Warrior(<<Ins(Opcode_DJN, Modifier_B, AddressMode_DIRECT, 0, AddressMode_IMMEDIATE, 2),
            Ins(Opcode_JMZ, Modifier_F, AddressMode_DIRECT, CoreSize - 1,
                AddressMode_B_PREDECR, 1)>>, 0, Null)

\* STP.AB #1, #1 ; LDP.AB #1, }-1, with pin 7
StpLdp(pin) ==
  Warrior(<<Ins(Opcode_STP, Modifier_AB, AddressMode_IMMEDIATE, 1, AddressMode_IMMEDIATE, 1),
            Ins(Opcode_LDP, Modifier_AB, AddressMode_IMMEDIATE, 1,
                AddressMode_A_POSTINC, CoreSize - 1)>>, 0, pin)

\* DAT.F #0, #0 with a pin
DatP(pin) == Warrior(<<Ins(Opcode_DAT, Modifier_F, AddressMode_IMMEDIATE, 0,
                           AddressMode_IMMEDIATE, 0)>>, 0, pin)

\* JMP.B $0, $0 with a pin
LoopP(pin) ==
  Warrior(<<Ins(Opcode_JMP, Modifier_B, AddressMode_DIRECT, 0, AddressMode_DIRECT, 0)>>,
          0, pin)

\* LDP.AB #1, $2 ; STP.AB #1, #1
LdpStp ==
  Warrior(<<Ins(Opcode_LDP, Modifier_AB, AddressMode_IMMEDIATE, 1, AddressMode_DIRECT, 2),
            Ins(Opcode_STP, Modifier_AB, AddressMode_IMMEDIATE, 1, AddressMode_IMMEDIATE, 1)>>,
          0, Null)

\* ADD.AB #1, @1 ; SNE.I $0, >-1, started at the SNE
AddSne ==
  Warrior(<<Ins(Opcode_ADD, Modifier_AB, AddressMode_IMMEDIATE, 1, AddressMode_B_INDIRECT, 1),
            Ins(Opcode_SNE, Modifier_I, AddressMode_DIRECT, 0,
                AddressMode_B_POSTINC, CoreSize - 1)>>, 1, Null)

\* The warrior lists loadWarriors is called with.
Lineups ==
  {<<Imp>>, <<Imp, Dat>>, <<Dat, Imp>>, <<Imp, Imp>>, <<SplLoop, Loop>>,
   <<SplSpl, Loop>>, <<SplDat, Imp>>, <<NopDiv, SplLoop>>, <<DjnJmz, Imp>>,
   <<StpLdp(7), StpLdp(7)>>, <<AddSne, SplDat>>,
   <<Imp, Dat, Loop>>, <<Dat, SplLoop, Dat>>, <<NopDiv, Imp, SplDat>>,
   <<Loop, Dat, StpLdp(Null)>>,
   <<StpLdp(7), LoopP(7)>>, <<DatP(7), DatP(3), DatP(7), DatP(7)>>, <<LdpStp, Loop>>}

\* ---------------------------------------------------------------- Assembler
\* A source text is the sequence of its lines, and a line is its tokens: the
\* label in front (or ""), the word after it (EQU, FOR, ROF, ORG, END, PIN, or
\* INS for an opcode) and what follows: an expression, which is a number or a
\* name, or an instruction's modifier, modes and numeric operands.  The texts
\* covered have no comment lines, every EQU has a label, FOR blocks are not
\* nested and hold instruction lines only, names are EQU names or labels, and
\* instructions are written with their modifier and two numeric operands.
Num(n) == [isName |-> FALSE, name |-> "", value |-> n]

Name(s) == [isName |-> TRUE, name |-> s, value |-> 0]

\* nothing after the word
NoExpr == [isName |-> FALSE, name |-> "none", value |-> 0]

NoIns == [op |-> Opcode_DAT, mod |-> Modifier_F, aMode |-> AddressMode_DIRECT, aExpr |-> 0,
          bMode |-> AddressMode_DIRECT, bExpr |-> 0]

\* the line "label word expr"
Line(label, word, expr) == [label |-> label, word |-> word, expr |-> expr, ins |-> NoIns]

\* the line "label op.mod <aMode>aExpr, <bMode>bExpr"
InsLine(label, op, mod, aMode, aExpr, bMode, bExpr) ==
  [label |-> label, word |-> "INS", expr |-> NoExpr,
   ins |-> [op |-> op, mod |-> mod, aMode |-> aMode, aExpr |-> aExpr,
            bMode |-> bMode, bExpr |-> bExpr]]

Message(type, text) == [type |-> type, text |-> text]

\* JavaScript's value % m, and normalize.
JsRem(value, m) == IF value >= 0 THEN value % m ELSE -((-value) % m)

normalize(value, m) ==
  LET v == JsRem(value, m) IN IF v < 0 THEN v + m ELSE v

\* substituteEqus and evaluate, on an expression: a name that comes back in
\* its own definition counts as 0, and so does a name that is no EQU.
RECURSIVE substituteEqus(_, _, _)
substituteEqus(expr, equDefs, visited) ==
  IF ~expr.isName THEN expr.value
  ELSE IF expr.name \in DOMAIN equDefs
         THEN IF expr.name \in visited THEN 0
              ELSE substituteEqus(equDefs[expr.name], equDefs, visited \cup {expr.name})
         ELSE 0

\* substituteLabelsAndEqusAbsolute and evaluate, on an expression.  The
\* function calls itself on the text of every EQU name it meets and keeps no
\* record of the names it is in: on a chain of definitions longer than the
\* number of definitions, which is a chain that repeats a name, the calls
\* never end, and the call stack runs out (a RangeError).
RECURSIVE substituteLabelsAndEqusAbsolute(_, _, _, _)
substituteLabelsAndEqusAbsolute(expr, labels, equDefs, depth) ==
  IF ~expr.isName THEN [thrown |-> FALSE, value |-> expr.value]
  ELSE IF expr.name \in DOMAIN equDefs
         THEN IF depth >= Cardinality(DOMAIN equDefs)
                THEN [thrown |-> TRUE, value |-> 0]
                ELSE substituteLabelsAndEqusAbsolute(equDefs[expr.name], labels, equDefs,
                                                     depth + 1)
  ELSE IF expr.name \in DOMAIN labels
         THEN [thrown |-> FALSE, value |-> labels[expr.name].value]
         ELSE [thrown |-> FALSE, value |-> 0]

\* A list of instructions is kept as a list of blocks, a block being some
\* lines repeated a number of times: the list is the blocks' lines, each
\* block's lines times times over, one block after the other.  An instruction
\* line is a block of one line, once; FOR's loops, which push the lines of
\* the block count times over, make a block of them.
Block(lines, times) == [lines |-> lines, times |-> times]

\* The length of the list the blocks stand for.
RECURSIVE BlocksLength(_)
BlocksLength(blocks) ==
  IF blocks = << >> THEN 0
  ELSE Len(Head(blocks).lines) * Head(blocks).times + BlocksLength(Tail(blocks))

\* The list the blocks stand for.
RECURSIVE Flatten(_)
Flatten(blocks) ==
  IF blocks = << >> THEN << >>
  ELSE [j \in 1..(Len(Head(blocks).lines) * Head(blocks).times) |->
          Head(blocks).lines[((j - 1) % Len(Head(blocks).lines)) + 1]]
       \o Flatten(Tail(blocks))

\* The lines of a FOR block, count times over: nothing for a count below 1.
ExpandFor(lines, count) ==
  IF count >= 1 /\ lines # << >> THEN <<Block(lines, count)>> ELSE << >>

\* What pass 1 of assemble keeps, before the first line.
Pass1Start ==
  [instrCount |-> 0, equDefs |-> << >>, labels |-> << >>, instructions |-> << >>,
   forOpen |-> FALSE, forLabel |-> "", forCount |-> 0, forLines |-> << >>,
   orgOffset |-> 0, endSet |-> FALSE, endOffset |-> 0, pin |-> Null,
   messages |-> << >>, ended |-> FALSE, thrown |-> FALSE]

\* One turn of pass 1's loop over the lines.
Pass1Line(st, line) ==
  IF st.ended \/ st.thrown THEN st
  ELSE IF st.forOpen
    THEN IF line.word = "ROF"
           THEN [st EXCEPT
                   !.equDefs = IF st.forLabel # "" /\ st.forCount >= 1
                                 THEN (st.forLabel :> Num(st.forCount)) @@ @ ELSE @,
                   !.instructions = @ \o ExpandFor(st.forLines, st.forCount),
                   !.instrCount = @ + BlocksLength(ExpandFor(st.forLines, st.forCount)),
                   !.forOpen = FALSE]
           ELSE [st EXCEPT !.forLines = Append(@, line)]
  ELSE CASE line.word = "EQU" ->
              [st EXCEPT
                 !.equDefs = (line.label :> line.expr) @@ @,
                 !.labels = (line.label :> [value |-> 0, isEqu |-> TRUE]) @@ @]
         [] line.word = "FOR" ->
              [st EXCEPT !.forOpen = TRUE, !.forLabel = line.label,
                         !.forCount = substituteEqus(line.expr, st.equDefs, {}),
                         !.forLines = << >>]
         [] line.word = "ORG" ->
              LET r == substituteLabelsAndEqusAbsolute(line.expr, st.labels, st.equDefs, 0)
              IN  IF r.thrown THEN [st EXCEPT !.thrown = TRUE]
                  ELSE [st EXCEPT !.orgOffset = r.value]
         [] line.word = "END" ->
              IF line.expr = NoExpr THEN [st EXCEPT !.ended = TRUE]
              ELSE LET r == substituteLabelsAndEqusAbsolute(line.expr, st.labels,
                                                            st.equDefs, 0)
                   IN  IF r.thrown THEN [st EXCEPT !.thrown = TRUE]
                       ELSE IF r.value = 0 THEN [st EXCEPT !.ended = TRUE]
                       ELSE IF st.orgOffset # 0
                         THEN [st EXCEPT
                                 !.messages = Append(@, Message("WARNING",
                                                "END offset ignored, ORG already set")),
                                 !.ended = TRUE]
                         ELSE [st EXCEPT !.endSet = TRUE, !.endOffset = r.value,
                                         !.ended = TRUE]
         [] line.word = "PIN" ->
              LET r == substituteLabelsAndEqusAbsolute(line.expr, st.labels, st.equDefs, 0)
              IN  IF r.thrown THEN [st EXCEPT !.thrown = TRUE]
                  ELSE [st EXCEPT !.pin = r.value]
         [] OTHER ->
              [st EXCEPT
                 !.labels = IF line.label # ""
                              THEN (line.label :> [value |-> st.instrCount,
                                                   isEqu |-> FALSE]) @@ @
                              ELSE @,
                 !.instructions = Append(@, Block(<<line>>, 1)),
                 !.instrCount = @ + 1]

RECURSIVE Pass1(_, _, _)
Pass1(st, lines, k) ==
  IF k > Len(lines) THEN st
  ELSE Let(Pass1Line(st, lines[k]), LAMBDA s1 : Pass1(s1, lines, k + 1))

\* assembleInstruction, for a line with its modifier and numeric operands.
assembleInstruction(line, coreSize) ==
  createInstruction(line.ins.op, line.ins.mod,
                    line.ins.aMode, normalize(line.ins.aExpr, coreSize),
                    line.ins.bMode, normalize(line.ins.bExpr, coreSize))

NoWarrior == [instructions |-> << >>, startOffset |-> Null, pin |-> Null]

\* What assemble(source) does: it returns a result, or ends in a RangeError.
AsmThrows == [outcome |-> "RangeError", success |-> FALSE, warrior |-> NoWarrior,
              messages |-> << >>]

AsmFails(messages) ==
  [outcome |-> "return", success |-> FALSE, warrior |-> NoWarrior, messages |-> messages]

\* assemble(source), for an Assembler with the options opts; the warrior's
\* instructions are a list of blocks.
assemble(opts, source) ==
  Let(Pass1(Pass1Start, source, 1), LAMBDA st :
  IF st.thrown THEN AsmThrows
  ELSE
  LET orgOffset == IF st.endSet /\ st.orgOffset = 0 THEN st.endOffset ELSE st.orgOffset
      messages1 == Append(st.messages, Message("WARNING", "Missing ASSERT"))
      finalInstrCount == BlocksLength(st.instructions)
      messages2 == IF finalInstrCount > opts.maxLength
                     THEN Append(messages1,
                                 Message("WARNING", "Warrior has N instructions, limit is M"))
                     ELSE messages1
      assembled == [b \in DOMAIN st.instructions |->
                      Block([i \in DOMAIN st.instructions[b].lines |->
                               assembleInstruction(st.instructions[b].lines[i],
                                                   opts.coreSize)],
                            st.instructions[b].times)]
  IN  IF finalInstrCount = 0
        THEN AsmFails(Append(messages1, Message("ERROR", "No instructions found")))
      ELSE IF \E i \in DOMAIN messages2 : messages2[i].type = "ERROR"
        THEN AsmFails(messages2)
      ELSE [outcome |-> "return", success |-> TRUE,
            warrior |-> Warrior(assembled, normalize(orgOffset, opts.coreSize), st.pin),
            messages |-> messages2])

\* ---------------------------------------------------------- the variables
VARIABLES options, warriorData, core, warriors, pSpaces, currentWarriorIdx,
          warriorsLeft, cycle, roundNum, totalCycles, seed, initialized,
          nextWarrior, prevWarrior,
          executed,     \* history: the cycles executed since the last setupRound
          lastCall,     \* history: the last method called
          ret,          \* history: what it returned
          extraSteps,   \* history: the step() calls made on a round that is over
          twin,         \* a second Simulator, where two are run side by side
          queue,        \* a CircularQueue used on its own, and its history
          asm,          \* an Assembler, the source it is given and its result
          compat        \* a CorewarCompat around the Simulator: roundStarted, and run()'s loop

simVars == <<options, warriorData, core, warriors, pSpaces, currentWarriorIdx,
             warriorsLeft, cycle, roundNum, totalCycles, seed, initialized,
             nextWarrior, prevWarrior, executed>>

vars == <<options, warriorData, core, warriors, pSpaces, currentWarriorIdx,
          warriorsLeft, cycle, roundNum, totalCycles, seed, initialized,
          nextWarrior, prevWarrior, executed, lastCall, ret, extraSteps, twin,
          queue, asm, compat>>

\* What the Simulator's methods leave alone.
aside == <<queue, asm, compat>>

\* The Simulator of the current state, and of the next.
Sim ==
  [options |-> options, warriorData |-> warriorData, core |-> core,
   warriors |-> warriors, pSpaces |-> pSpaces,
   currentWarriorIdx |-> currentWarriorIdx, warriorsLeft |-> warriorsLeft,
   cycle |-> cycle, roundNum |-> roundNum, totalCycles |-> totalCycles,
   seed |-> seed, initialized |-> initialized, nextWarrior |-> nextWarrior,
   prevWarrior |-> prevWarrior, executed |-> executed]

Becomes(s) ==
  /\ options' = s.options
  /\ warriorData' = s.warriorData
  /\ core' = s.core
  /\ warriors' = s.warriors
  /\ pSpaces' = s.pSpaces
  /\ currentWarriorIdx' = s.currentWarriorIdx
  /\ warriorsLeft' = s.warriorsLeft
  /\ cycle' = s.cycle
  /\ roundNum' = s.roundNum
  /\ totalCycles' = s.totalCycles
  /\ seed' = s.seed
  /\ initialized' = s.initialized
  /\ nextWarrior' = s.nextWarrior
  /\ prevWarrior' = s.prevWarrior
  /\ executed' = s.executed

Starts(s) ==
  /\ options = s.options
  /\ warriorData = s.warriorData
  /\ core = s.core
  /\ warriors = s.warriors
  /\ pSpaces = s.pSpaces
  /\ currentWarriorIdx = s.currentWarriorIdx
  /\ warriorsLeft = s.warriorsLeft
  /\ cycle = s.cycle
  /\ roundNum = s.roundNum
  /\ totalCycles = s.totalCycles
  /\ seed = s.seed
  /\ initialized = s.initialized
  /\ nextWarrior = s.nextWarrior
  /\ prevWarrior = s.prevWarrior
  /\ executed = s.executed

Void == [winnerId |-> Null, outcome |-> "void"]

Thrown == [winnerId |-> Null, outcome |-> "throw"]

\* No second Simulator.
NoTwin == [sim |-> Null, ret |-> Void]

\* No Assembler.
NotAssembled ==
  [outcome |-> "none", success |-> FALSE, warrior |-> NoWarrior, messages |-> << >>]

NoAsm == [opts |-> [coreSize |-> 0, maxLength |-> 0], source |-> << >>,
          result |-> NotAssembled]

\* No CorewarCompat: the Simulator is used directly.
NoCompat == [initialised |-> FALSE, roundStarted |-> FALSE, running |-> FALSE]

\* No CircularQueue on its own.
NoQueue == [q |-> NewQueue(0), pushed |-> << >>, popped |-> << >>]

\* new Simulator(options)
Init ==
  /\ \E o \in OptionChoices : Starts(NewSimulator(o))
  /\ lastCall = "new"
  /\ ret = Void
  /\ extraSteps = 0
  /\ twin = NoTwin
  /\ queue = NoQueue
  /\ asm = NoAsm
  /\ compat = NoCompat

\* loadWarriors(lineup), called once on a Simulator.
LoadWarriors ==
  /\ ~initialized
  /\ \E lineup \in Lineups : \E s1 \in {loadWarriors(Sim, Arr(lineup))} : Becomes(s1)
  /\ lastCall' = "loadWarriors"
  /\ ret' = Void
  /\ UNCHANGED <<extraSteps, twin, aside>>

\* setupRound()
SetupRound ==
  /\ roundNum < MaxRounds
  /\ IF setupRoundThrows(Sim)
       THEN /\ UNCHANGED <<simVars, extraSteps>>
            /\ ret' = Thrown
       ELSE /\ \E s1 \in {setupRound(Sim)} : Becomes(s1)
            /\ ret' = Void
            /\ extraSteps' = 0
  /\ lastCall' = "setupRound"
  /\ UNCHANGED <<twin, aside>>

\* step()
Step ==
  /\ RoundOver(Sim) => extraSteps < MaxExtraSteps
  /\ \E r \in {step(Sim)} : Becomes(r.sim) /\ ret' = r.result
  /\ extraSteps' = IF RoundOver(Sim) THEN extraSteps + 1 ELSE extraSteps
  /\ lastCall' = "step"
  /\ UNCHANGED <<twin, aside>>

\* runRound()
RunRound ==
  /\ roundNum < MaxRounds
  /\ IF setupRoundThrows(Sim)
       THEN /\ UNCHANGED <<simVars, extraSteps>>
            /\ ret' = Thrown
       ELSE /\ \E r \in {runRound(Sim)} : Becomes(r.sim) /\ ret' = r.result
            /\ extraSteps' = 0
  /\ lastCall' = "runRound"
  /\ UNCHANGED <<twin, aside>>

Next == LoadWarriors \/ SetupRound \/ Step \/ RunRound

Spec == Init /\ [][Next]_vars

\* ---------------------------------------------------- a PSpace on its own
\* A PSpace constructed and used directly, as pSpaces[0] of a Simulator that
\* is never loaded: set(index, value), an assignment to the public field
\* lastResult, clear() and clearKeepResult(), in any order.
PSpaceInit ==
  /\ Starts([NewSimulator(CHOOSE o \in OptionChoices : TRUE) EXCEPT
               !.pSpaces = [i \in {0} |-> NewPSpace(PSpaceCells, CoreSize)]])
  /\ lastCall = "new PSpace"
  /\ ret = Void
  /\ extraSteps = 0
  /\ twin = NoTwin
  /\ queue = NoQueue
  /\ asm = NoAsm
  /\ compat = NoCompat

PSpaceFrame ==
  UNCHANGED <<options, warriorData, core, warriors, currentWarriorIdx, warriorsLeft,
              cycle, roundNum, totalCycles, seed, initialized, nextWarrior,
              prevWarrior, executed, ret, extraSteps, twin, aside>>

PSpaceSetCall ==
  /\ \E index \in 0..PSpaceCells : \E value \in 0..MaxValue :
       pSpaces' = [pSpaces EXCEPT ![0] = PSpaceSet(@, index, value)]
  /\ lastCall' = "set"
  /\ PSpaceFrame

PSpaceAssignLastResult ==
  /\ \E value \in 0..MaxValue : pSpaces' = [pSpaces EXCEPT ![0].lastResult = value]
  /\ lastCall' = "lastResult ="
  /\ PSpaceFrame

PSpaceClearCall ==
  /\ pSpaces' = [pSpaces EXCEPT ![0] = PSpaceClear(@)]
  /\ lastCall' = "clear"
  /\ PSpaceFrame

PSpaceClearKeepResultCall ==
  /\ pSpaces' = [pSpaces EXCEPT ![0] = PSpaceClearKeepResult(@)]
  /\ lastCall' = "clearKeepResult"
  /\ PSpaceFrame

PSpaceNext ==
  PSpaceSetCall \/ PSpaceAssignLastResult \/ PSpaceClearCall \/ PSpaceClearKeepResultCall

PSpaceSpec == PSpaceInit /\ [][PSpaceNext]_vars

\* ------------------------------------------------ two Simulators side by side
\* Two Simulators constructed with the same options, the first at time 0 and
\* the second (twin) at time 1, and driven by the same calls with the same
\* arguments.  The field clock stands for what an instance could read from its
\* environment (the time, a random source); nothing in the Simulator reads it.
AtTime(s, c) ==
  [options |-> s.options, warriorData |-> s.warriorData, core |-> s.core,
   warriors |-> s.warriors, pSpaces |-> s.pSpaces,
   currentWarriorIdx |-> s.currentWarriorIdx, warriorsLeft |-> s.warriorsLeft,
   cycle |-> s.cycle, roundNum |-> s.roundNum, totalCycles |-> s.totalCycles,
   seed |-> s.seed, initialized |-> s.initialized, nextWarrior |-> s.nextWarrior,
   prevWarrior |-> s.prevWarrior, executed |-> s.executed, clock |-> c]

TwinInit ==
  /\ \E o \in OptionChoices :
       /\ Starts(NewSimulator(o))
       /\ twin = [sim |-> AtTime(NewSimulator(o), 1), ret |-> Void]
  /\ queue = NoQueue
  /\ asm = NoAsm
  /\ compat = NoCompat
  /\ lastCall = "new"
  /\ ret = Void
  /\ extraSteps = 0

\* The calls, each made on both Simulators with the same arguments.
TwinLoadWarriors ==
  /\ ~initialized
  /\ \E lineup \in Lineups :
       \E both \in {<<loadWarriors(AtTime(Sim, 0), Arr(lineup)),
                       loadWarriors(twin.sim, Arr(lineup))>>} :
         Becomes(both[1]) /\ twin' = [sim |-> both[2], ret |-> Void]
  /\ lastCall' = "loadWarriors"
  /\ ret' = Void
  /\ UNCHANGED <<extraSteps, aside>>

TwinSetupRound ==
  /\ roundNum < MaxRounds
  /\ \E both \in {<<IF setupRoundThrows(Sim) THEN [sim |-> Sim, result |-> Thrown]
                      ELSE [sim |-> setupRound(AtTime(Sim, 0)), result |-> Void],
                     IF setupRoundThrows(twin.sim)
                       THEN [sim |-> twin.sim, result |-> Thrown]
                       ELSE [sim |-> setupRound(twin.sim), result |-> Void]>>} :
       /\ Becomes(both[1].sim)
       /\ ret' = both[1].result
       /\ twin' = [sim |-> both[2].sim, ret |-> both[2].result]
  /\ extraSteps' = IF setupRoundThrows(Sim) THEN extraSteps ELSE 0
  /\ lastCall' = "setupRound"
  /\ UNCHANGED aside

TwinStep ==
  /\ RoundOver(Sim) => extraSteps < MaxExtraSteps
  /\ \E both \in {<<step(AtTime(Sim, 0)), step(twin.sim)>>} :
       /\ Becomes(both[1].sim)
       /\ ret' = both[1].result
       /\ twin' = [sim |-> both[2].sim, ret |-> both[2].result]
  /\ extraSteps' = IF RoundOver(Sim) THEN extraSteps + 1 ELSE extraSteps
  /\ lastCall' = "step"
  /\ UNCHANGED aside

TwinRunRound ==
  /\ roundNum < MaxRounds
  /\ \E both \in {<<IF setupRoundThrows(Sim) THEN [sim |-> Sim, result |-> Thrown]
                      ELSE runRound(AtTime(Sim, 0)),
                     IF setupRoundThrows(twin.sim)
                       THEN [sim |-> twin.sim, result |-> Thrown]
                       ELSE runRound(twin.sim)>>} :
       /\ Becomes(both[1].sim)
       /\ ret' = both[1].result
       /\ twin' = [sim |-> both[2].sim, ret |-> both[2].result]
  /\ extraSteps' = IF setupRoundThrows(Sim) THEN extraSteps ELSE 0
  /\ lastCall' = "runRound"
  /\ UNCHANGED aside

TwinNext == TwinLoadWarriors \/ TwinSetupRound \/ TwinStep \/ TwinRunRound

TwinSpec == TwinInit /\ [][TwinNext]_vars

\* ------------------------------------------------- loadWarriors on its own
\* new Simulator(options) followed by one loadWarriors(warriors), over the
\* position options fixedSeries and fixedPosition and over warrior lists
\* around the limit MAX_WARRIORS.
MAX_WARRIORS == 36

LoadOptionChoices ==
  {[coreSize |-> CoreSize, maxCycles |-> MaxCycles, maxLength |-> ml,
    maxProcesses |-> MaxProcesses, minSeparation |-> sep,
    readLimit |-> 0, writeLimit |-> 0, pSpaceSize |-> 0, seed |-> Null,
    fixedSeries |-> fs, fixedPosition |-> fp] :
     ml \in {1, 2}, sep \in {1, 2, 3}, fs \in BOOLEAN, fp \in {Null, 0, 1, 2, 3}}

\* The warrior lists: n copies of DAT.F #0, #0.
LoadLineups ==
  {[i \in 0..(n - 1) |-> Dat] : n \in {0, 1, 2, MAX_WARRIORS, MAX_WARRIORS + 1}}

LoadInit ==
  /\ \E o \in LoadOptionChoices : Starts(NewSimulator(o))
  /\ lastCall = "new"
  /\ ret = Void
  /\ extraSteps = 0
  /\ twin = NoTwin
  /\ queue = NoQueue
  /\ asm = NoAsm
  /\ compat = NoCompat

\* loadWarriors(lineup): it has no throw statement, so it always returns.
LoadCall ==
  /\ ~initialized
  /\ \E lineup \in LoadLineups : \E s1 \in {loadWarriors(Sim, lineup)} : Becomes(s1)
  /\ lastCall' = "loadWarriors"
  /\ ret' = Void
  /\ UNCHANGED <<extraSteps, twin, aside>>

LoadNext == LoadCall

LoadSpec == LoadInit /\ [][LoadNext]_vars

\* ------------------------------------------------------- one DIV or MOD
\* A round of two warriors set up with the first about to execute a DIV or
\* MOD, over the opcode, the modifier, the A mode and the divisor fields:
\*   op.mod <am> av, $2 ; DAT #x, #y ; DAT #3, #5     against JMP $0.
DivOptions ==
  [coreSize |-> CoreSize, maxCycles |-> MaxCycles, maxLength |-> 3,
   maxProcesses |-> MaxProcesses, minSeparation |-> 3,
   readLimit |-> 0, writeLimit |-> 0, pSpaceSize |-> 0, seed |-> 3]

DivWarrior(op, mod, am, av, x, y) ==
  Warrior(<<Ins(op, mod, am, av, AddressMode_DIRECT, 2),
            Ins(Opcode_DAT, Modifier_F, AddressMode_IMMEDIATE, x, AddressMode_IMMEDIATE, y),
            Ins(Opcode_DAT, Modifier_F, AddressMode_IMMEDIATE, 3, AddressMode_IMMEDIATE, 5)>>,
          0, Null)

DivWarriors ==
  {DivWarrior(op, mod, am, av, x, y) :
     op \in {Opcode_DIV, Opcode_MOD},
     mod \in {Modifier_A, Modifier_B, Modifier_AB, Modifier_BA,
              Modifier_F, Modifier_X, Modifier_I},
     am \in {AddressMode_IMMEDIATE, AddressMode_DIRECT},
     av \in {0, 1}, x \in {0, 2}, y \in {0, 2}}

\* new Simulator(options), loadWarriors([w, loop]) and setupRound().
DivInit ==
  /\ \E w \in DivWarriors :
       \E s1 \in {loadWarriors(NewSimulator(DivOptions), Arr(<<w, Loop>>))} :
         \E s2 \in {setupRound(s1)} : Starts(s2)
  /\ lastCall = "setupRound"
  /\ ret = Void
  /\ extraSteps = 0
  /\ twin = NoTwin
  /\ queue = NoQueue
  /\ asm = NoAsm
  /\ compat = NoCompat

DivNext == Step

DivSpec == DivInit /\ [][DivNext]_vars

\* ------------------------------------------------ a CircularQueue on its own
\* new CircularQueue(capacity), then push(value) while the size is below the
\* capacity and pop() while it is above 0, in any order.  The history fields
\* pushed and popped list the values pushed and the values pop has returned.
QueueCapacity == 3
MaxPushes == 5

QueueValues == {1, 2}

QueueInit ==
  /\ Starts(NewSimulator(CHOOSE o \in OptionChoices : TRUE))
  /\ lastCall = "new CircularQueue"
  /\ ret = Void
  /\ extraSteps = 0
  /\ twin = NoTwin
  /\ asm = NoAsm
  /\ compat = NoCompat
  /\ \E capacity \in 1..QueueCapacity :
       queue = [q |-> NewQueue(capacity), pushed |-> << >>, popped |-> << >>]

QueueFrame == UNCHANGED <<simVars, ret, extraSteps, twin, asm, compat>>

\* push(value)
QueuePushCall ==
  /\ queue.q.size < queue.q.capacity
  /\ Len(queue.pushed) < MaxPushes
  /\ \E value \in QueueValues :
       queue' = [queue EXCEPT !.q = QueuePush(@, value), !.pushed = Append(@, value)]
  /\ lastCall' = "push"
  /\ QueueFrame

\* pop()
QueuePopCall ==
  /\ queue.q.size > 0
  /\ queue' = [queue EXCEPT !.q = QueuePop(@), !.popped = Append(@, QueueFront(queue.q))]
  /\ lastCall' = "pop"
  /\ QueueFrame

QueueNext == QueuePushCall \/ QueuePopCall

QueueSpec == QueueInit /\ [][QueueNext]_vars

\* ------------------------------------------------- the seed of the rounds
\* new Simulator({ seed: null }), loadWarriors and setupRound, over warriors
\* of one instruction with the fields drawn from small sets, alone or with an
\* imp; and one warrior whose checksum is 2^31 - 1.
SeedOptions ==
  [coreSize |-> CoreSize, maxCycles |-> MaxCycles, maxLength |-> 1,
   maxProcesses |-> MaxProcesses, minSeparation |-> 1,
   readLimit |-> 0, writeLimit |-> 0, pSpaceSize |-> 0, seed |-> Null]

SeedWarriors ==
  {Warrior(<<Ins(op, mod, am, av, bm, bv)>>, 0, Null) :
     op \in {Opcode_MOV, Opcode_DAT}, mod \in {Modifier_A, Modifier_F},
     am \in {AddressMode_IMMEDIATE, AddressMode_DIRECT},
     bm \in {AddressMode_DIRECT, AddressMode_B_INDIRECT},
     av \in {0, 3}, bv \in {0, 4}}

\* MOV.A $3, @2147483643, whose fields add up to 2147483643 ^ 4 = 2^31 - 1.
SeedWarriorMax ==
  Warrior(<<Ins(Opcode_MOV, Modifier_A, AddressMode_DIRECT, 3,
                AddressMode_B_INDIRECT, 2147483643)>>, 0, Null)

SeedLineups ==
  {<<w>> : w \in SeedWarriors \cup {SeedWarriorMax}} \cup {<<w, Imp>> : w \in SeedWarriors}

SeedInit ==
  /\ Starts(NewSimulator(SeedOptions))
  /\ lastCall = "new"
  /\ ret = Void
  /\ extraSteps = 0
  /\ twin = NoTwin
  /\ queue = NoQueue
  /\ asm = NoAsm
  /\ compat = NoCompat

SeedLoadWarriors ==
  /\ ~initialized
  /\ \E lineup \in SeedLineups : \E s1 \in {loadWarriors(Sim, Arr(lineup))} : Becomes(s1)
  /\ lastCall' = "loadWarriors"
  /\ ret' = Void
  /\ UNCHANGED <<extraSteps, twin, aside>>

SeedNext == SeedLoadWarriors \/ SetupRound

SeedSpec == SeedInit /\ [][SeedNext]_vars

\* --------------------------------------------------- an Assembler on its own
\* new Assembler({ coreSize, maxLength }) and one assemble(source), over
\* sources of three kinds: instruction lines only; a FOR block, with a count
\* around 0 and around 65536, and a line after it or not; and EQU
\* definitions, in a chain or in a cycle, an instruction and an ORG, END or
\* PIN that refers to the first of them.
MaxLength == 2
ForCountWrap == 65536

AsmOptionChoices == {[coreSize |-> CoreSize, maxLength |-> ml] : ml \in 1..MaxLength}

\* DAT.F #0, #0 ; MOV.I $0, $1 ; JMP.B $-2, $0
AsmInsLines ==
  {InsLine("", Opcode_DAT, Modifier_F, AddressMode_IMMEDIATE, 0, AddressMode_IMMEDIATE, 0),
   InsLine("", Opcode_MOV, Modifier_I, AddressMode_DIRECT, 0, AddressMode_DIRECT, 1),
   InsLine("", Opcode_JMP, Modifier_B, AddressMode_DIRECT, -2, AddressMode_DIRECT, 0)}

\* The sequences of n elements of S.
SeqsOf(S, n) == [1..n -> S]

LengthSources == UNION {SeqsOf(AsmInsLines, n) : n \in 1..(MaxLength + 1)}

\* FOR count / DAT.F #0, #0 / ROF, and the same followed by DAT.F #1, #1
ForSource(count, trailing) ==
  <<Line("", "FOR", Num(count)),
    InsLine("", Opcode_DAT, Modifier_F, AddressMode_IMMEDIATE, 0, AddressMode_IMMEDIATE, 0),
    Line("", "ROF", NoExpr)>> \o
  (IF trailing
     THEN <<InsLine("", Opcode_DAT, Modifier_F, AddressMode_IMMEDIATE, 1,
                    AddressMode_IMMEDIATE, 1)>>
     ELSE << >>)

ForSources ==
  {ForSource(count, trailing) :
     count \in {0, 1, 2, ForCountWrap, ForCountWrap + 1}, trailing \in BOOLEAN}

\* The names of the EQUs, in the order they are defined.
EquNames == <<"A", "B", "C">>

\* n EQU lines, the i-th defining EquNames[i] as the next name and the last
\* as `last`; MOV.I $0, $1 ; DAT.F #0, #0 ; and the directive `word A`.
EquSource(n, last, word) ==
  [i \in 1..n |-> Line(EquNames[i], "EQU", IF i < n THEN Name(EquNames[i + 1]) ELSE last)] \o
  <<InsLine("", Opcode_MOV, Modifier_I, AddressMode_DIRECT, 0, AddressMode_DIRECT, 1),
    InsLine("", Opcode_DAT, Modifier_F, AddressMode_IMMEDIATE, 0, AddressMode_IMMEDIATE, 0),
    Line("", word, Name("A"))>>

EquSources ==
  {EquSource(n, last, word) :
     n \in 1..Len(EquNames), last \in {Num(0), Num(1), Name("A"), Name("B"), Name("C")},
     word \in {"ORG", "END", "PIN"}}

AsmSources == LengthSources \cup ForSources \cup EquSources

AsmInit ==
  /\ Starts(NewSimulator(CHOOSE o \in OptionChoices : TRUE))
  /\ lastCall = "new Assembler"
  /\ ret = Void
  /\ extraSteps = 0
  /\ twin = NoTwin
  /\ queue = NoQueue
  /\ compat = NoCompat
  /\ \E opts \in AsmOptionChoices, source \in AsmSources :
       asm = [opts |-> opts, source |-> source, result |-> NotAssembled]

\* assemble(source)
AsmAssemble ==
  /\ asm.result = NotAssembled
  /\ \E r \in {assemble(asm.opts, asm.source)} : asm' = [asm EXCEPT !.result = r]
  /\ lastCall' = "assemble"
  /\ UNCHANGED <<simVars, ret, extraSteps, twin, queue, compat>>

AsmNext == AsmAssemble

AsmSpec == AsmInit /\ [][AsmNext]_vars

\* ------------------------------------------- the cycles of one instruction
\* A round of two warriors set up with the first about to execute a chosen
\* instruction, with and without read and write limits:
\*   ins ; DAT #x, #y ; DAT #1, #2     against JMP $0.
AllModifiers ==
  {Modifier_A, Modifier_B, Modifier_AB, Modifier_BA, Modifier_F, Modifier_X, Modifier_I}

AllModes ==
  {AddressMode_IMMEDIATE, AddressMode_DIRECT, AddressMode_B_INDIRECT,
   AddressMode_B_PREDECR, AddressMode_B_POSTINC, AddressMode_A_INDIRECT,
   AddressMode_A_PREDECR, AddressMode_A_POSTINC}

CycleOptionChoices ==
  {[coreSize |-> CoreSize, maxCycles |-> MaxCycles, maxLength |-> 3,
    maxProcesses |-> MaxProcesses, minSeparation |-> 3,
    readLimit |-> lim[1], writeLimit |-> lim[2], pSpaceSize |-> 0, seed |-> 3] :
     lim \in {<<0, 0>>, <<3, 2>>, <<2, 3>>, <<0, 4>>}}

\* DJN.mod $2, <bm> bv
DjnInstructions ==
  {Ins(Opcode_DJN, mod, AddressMode_DIRECT, 2, bm, bv) :
     mod \in AllModifiers, bm \in AllModes, bv \in {0, 1}}

\* op.mod <am> av, #bv
ImmInstructions ==
  {Ins(op, mod, am, av, AddressMode_IMMEDIATE, bv) :
     op \in {Opcode_ADD, Opcode_SLT, Opcode_JMZ},
     mod \in {Modifier_A, Modifier_B, Modifier_AB, Modifier_F},
     am \in AllModes, av \in {0, 1}, bv \in {0, 1, 2}}

\* op.mod <am> av, <bm> bv with direct and post-increment operands
PostincInstructions ==
  {Ins(op, mod, am, av, bm, bv) :
     op \in {Opcode_JMZ, Opcode_SLT}, mod \in {Modifier_B, Modifier_F},
     am \in {AddressMode_DIRECT, AddressMode_B_POSTINC, AddressMode_A_POSTINC},
     bm \in {AddressMode_DIRECT, AddressMode_B_POSTINC, AddressMode_A_POSTINC},
     av \in {0, 1}, bv \in {0, 1}}

\* MOV.I <am> av, <bm> bv and ADD.F <am> av, <bm> bv, with operands near and far
WriteInstructions ==
  {Ins(opmod[1], opmod[2], am, av, bm, bv) :
     opmod \in {<<Opcode_MOV, Modifier_I>>, <<Opcode_ADD, Modifier_F>>},
     am \in {AddressMode_DIRECT, AddressMode_B_PREDECR, AddressMode_A_POSTINC},
     bm \in AllModes, av \in {0, 3}, bv \in {0, 2, 3, CoreSize - 1}}

\* The instruction with the fields x and y of the cell that follows it.
CycleCases ==
  {<<ins, x, y>> : ins \in DjnInstructions, x \in 0..2, y \in 0..2}
    \cup {<<ins, 1, 2>> : ins \in ImmInstructions}
    \cup {<<ins, x, y>> : ins \in PostincInstructions, x \in {0, CoreSize - 1}, y \in {0, 1}}
    \cup {<<ins, xy[1], xy[2]>> : ins \in WriteInstructions, xy \in {<<3, 4>>, <<0, CoreSize - 1>>}}

CycleWarrior(ins, x, y) ==
  Warrior(<<ins,
            Ins(Opcode_DAT, Modifier_F, AddressMode_IMMEDIATE, x, AddressMode_IMMEDIATE, y),
            Ins(Opcode_DAT, Modifier_F, AddressMode_IMMEDIATE, 1, AddressMode_IMMEDIATE, 2)>>,
          0, Null)

\* new Simulator(options), loadWarriors([w, loop]) and setupRound().
CycleInit ==
  /\ \E o \in CycleOptionChoices, case \in CycleCases :
       \E s1 \in {loadWarriors(NewSimulator(o),
                                Arr(<<CycleWarrior(case[1], case[2], case[3]), Loop>>))} :
         \E s2 \in {setupRound(s1)} : Starts(s2)
  /\ lastCall = "setupRound"
  /\ ret = Void
  /\ extraSteps = 0
  /\ twin = NoTwin
  /\ queue = NoQueue
  /\ asm = NoAsm
  /\ compat = NoCompat

CycleNext == Step

CycleSpec == CycleInit /\ [][CycleNext]_vars

\* --------------------------------------------- as many warriors as cells
\* Rounds of two warriors of one instruction in a core of two cells, each
\* warrior an LDP of P-space index 0 into its own cell:
\*   LDP.mod #0, $0     against     LDP.mod #0, $0.
SmallCoreOptions ==
  [coreSize |-> 2, maxCycles |-> MaxCycles, maxLength |-> 1,
   maxProcesses |-> MaxProcesses, minSeparation |-> 1,
   readLimit |-> 0, writeLimit |-> 0, pSpaceSize |-> 0, seed |-> 3]

LdpWarrior(mod) ==
  Warrior(<<Ins(Opcode_LDP, mod, AddressMode_IMMEDIATE, 0, AddressMode_DIRECT, 0)>>, 0, Null)

\* new Simulator(options) and loadWarriors([w1, w2]).
SmallCoreInit ==
  /\ \E m1 \in AllModifiers, m2 \in AllModifiers :
       \E s1 \in {loadWarriors(NewSimulator(SmallCoreOptions),
                                Arr(<<LdpWarrior(m1), LdpWarrior(m2)>>))} : Starts(s1)
  /\ lastCall = "loadWarriors"
  /\ ret = Void
  /\ extraSteps = 0
  /\ twin = NoTwin
  /\ queue = NoQueue
  /\ asm = NoAsm
  /\ compat = NoCompat

SmallCoreNext == SetupRound \/ Step

SmallCoreSpec == SmallCoreInit /\ [][SmallCoreNext]_vars

\* ------------------------------------------------- the compat API's rounds
\* A CorewarCompat: initialiseSimulator(options, warriors), with the warriors
\* given by the data they assemble to, step() and run().  run() is a loop of
\* step() calls, and one iteration of it is one action: compat.running tells
\* that the loop is being executed.
CompatOptions ==
  [coreSize |-> CoreSize, maxCycles |-> MaxCycles, maxLength |-> 2,
   maxProcesses |-> MaxProcesses, minSeparation |-> 1,
   readLimit |-> 0, writeLimit |-> 0, pSpaceSize |-> 0, seed |-> 3]

\* new CorewarCompat()
CompatInit ==
  /\ Starts(NewSimulator(CompatOptions))
  /\ lastCall = "new CorewarCompat"
  /\ ret = Void
  /\ extraSteps = 0
  /\ twin = NoTwin
  /\ queue = NoQueue
  /\ asm = NoAsm
  /\ compat = NoCompat

\* initialiseSimulator(options, warriors)
CompatInitialiseSimulator ==
  /\ ~compat.running
  /\ \E lineup \in Lineups :
       \E s1 \in {loadWarriors(NewSimulator(CompatOptions), Arr(lineup))} :
         IF setupRoundThrows(s1)
           THEN /\ Becomes(s1)
                /\ ret' = Thrown
                /\ compat' = [compat EXCEPT !.initialised = TRUE]
           ELSE /\ \E s2 \in {setupRound(s1)} : Becomes(s2)
                /\ ret' = Void
                /\ compat' = [compat EXCEPT !.initialised = TRUE, !.roundStarted = TRUE]
  /\ lastCall' = "initialiseSimulator"
  /\ UNCHANGED <<extraSteps, twin, queue, asm>>

\* The body of step() with one step: the result, and the rest through the
\* primed variables; running is the value compat.running gets when the
\* Simulator has returned nothing yet.
CompatStepBody(running) ==
  IF ~compat.initialised \/ ~compat.roundStarted
    THEN /\ ret' = NoResult
         /\ compat' = [compat EXCEPT !.running = running]
         /\ UNCHANGED simVars
    ELSE \E r \in {step(Sim)} :
           /\ Becomes(r.sim)
           /\ ret' = r.result
           /\ compat' = IF r.result # NoResult
                          THEN [compat EXCEPT !.roundStarted = FALSE, !.running = FALSE]
                          ELSE [compat EXCEPT !.running = running]

\* step()
CompatStep ==
  /\ ~compat.running
  /\ CompatStepBody(FALSE)
  /\ lastCall' = "compat.step"
  /\ UNCHANGED <<extraSteps, twin, queue, asm>>

\* run(), up to its loop
CompatRun ==
  /\ ~compat.running
  /\ IF ~compat.initialised
       THEN ret' = Thrown /\ UNCHANGED compat
       ELSE ret' = NoResult /\ compat' = [compat EXCEPT !.running = TRUE]
  /\ lastCall' = "compat.run"
  /\ UNCHANGED <<simVars, extraSteps, twin, queue, asm>>

\* One iteration of run()'s loop: result = this.step(), and the return when
\* the result is not null.
CompatRunLoop ==
  /\ compat.running
  /\ CompatStepBody(TRUE)
  /\ lastCall' = "compat.run"
  /\ UNCHANGED <<extraSteps, twin, queue, asm>>

CompatNext == CompatInitialiseSimulator \/ CompatStep \/ CompatRun \/ CompatRunLoop

CompatSpec == CompatInit /\ [][CompatNext]_vars

\* run()'s loop goes on while it can.
CompatLiveSpec == CompatSpec /\ WF_vars(CompatRunLoop)

\* ------------------------------------------------------------ properties
NumWarriors == ALen(warriors)

\* A round has been set up.
InRound == roundNum >= 1

\* The round can go on: step() and runRound() execute a cycle.
Running == cycle > 0 /\ warriorsLeft >= 2

\* The program counters warrior i of ws has queued, oldest first.
QueueOf(ws, i) == QueueToArray(ws[i].processQueue)

Last(sq) == sq[Len(sq)]

\* The first warrior after i, in index order and wrapping around, that is in alive.
NextAlive(i, alive, n) ==
  (i + Min({k \in 1..n : ((i + k) % n) \in alive})) % n

\* The opcode of the instruction at address pc.
OpcodeAt(pc) == decodeOpcode(CoreGet(core, pc).opcode).opcode

\* What step() and runRound() return at the end of a round.
IsResult(r) == r.outcome \in {"WIN", "TIE"}

\* C1, on the cycles of the round so far: the first is the starter's, and each
\* next one is run by the first warrior after the previous one, in index order
\* and wrapping around, that was alive after the previous cycle; the warrior
\* whose turn it is now is found the same way.
C1_Order ==
  InRound =>
    /\ executed # << >> => executed[1].w = (roundNum - 1) % NumWarriors
    /\ \A k \in 1..(Len(executed) - 1) :
         executed[k + 1].w = NextAlive(executed[k].w, executed[k].alive, NumWarriors)
    /\ (executed # << >> /\ Running) =>
         currentWarriorIdx =
           NextAlive(Last(executed).w, Last(executed).alive, NumWarriors)

\* C1, on one step of a running round: one cycle is executed, by the warrior
\* whose turn it is, which is alive; it takes the one program counter at the head
\* of that warrior's queue, and no other warrior's tasks or queue change.
C1_OneTask ==
  (lastCall' = "step" /\ Running) =>
    /\ Len(executed') = Len(executed) + 1
    /\ Last(executed').w = currentWarriorIdx
    /\ warriors[currentWarriorIdx].alive
    /\ Last(executed').pc = Head(QueueOf(warriors, currentWarriorIdx))
    /\ Len(QueueOf(warriors', currentWarriorIdx))
         >= Len(QueueOf(warriors, currentWarriorIdx)) - 1
    /\ \A j \in DOMAIN warriors \ {currentWarriorIdx} :
         /\ warriors'[j].processQueue = warriors[j].processQueue
         /\ warriors'[j].tasks = warriors[j].tasks

\* C1: during a round the cycles are executed by the alive warriors in cyclic
\* index order from the round's starter, and each visit executes exactly one
\* instruction of exactly one task of the warrior visited.
C1_CyclicOrder == [] C1_Order /\ [][C1_OneTask]_vars

\* C1's case: three warriors, one of them dead, and cycles executed after its death.
C1_Witness ==
  /\ InRound /\ NumWarriors = 3 /\ Len(executed) >= 3
  /\ \E k \in 1..(Len(executed) - 1) : Cardinality(executed[k].alive) = 2

\* C2: at every step boundary of a round (after setupRound and after every
\* step), each alive warrior's tasks counter equals the number of program
\* counters in its process queue.
C2_TasksEqualQueueSize ==
  InRound =>
    \A i \in DOMAIN warriors :
      warriors[i].alive =>
        /\ warriors[i].tasks = warriors[i].processQueue.size
        /\ warriors[i].tasks = Len(QueueOf(warriors, i))

\* C2's case: a warrior that split, lost a task and is still alive.
C2_Witness ==
  /\ InRound /\ lastCall = "step" /\ Len(executed) >= 3
  /\ \E i \in DOMAIN warriors :
       /\ warriors[i].alive
       /\ warriors[i].processQueue.peak = 2
       /\ warriors[i].tasks = 1
       /\ OpcodeAt(Last(executed).pc) = Opcode_DAT
       /\ Last(executed).w = i

\* C3: in every state after loadWarriors (before the first setupRound, after
\* each setupRound, after every step and after the round's end) every warrior
\* is alive exactly when its tasks counter is above zero.
C3_AliveIffTasks ==
  initialized =>
    \A i \in DOMAIN warriors : warriors[i].alive <=> (warriors[i].tasks > 0)

\* Every queue holds, and has held since the round was set up, fewer than
\* maxProcesses + 1 program counters, and no tasks counter exceeds maxProcesses.
C4_Bounded ==
  \A i \in DOMAIN warriors :
    /\ warriors[i].processQueue.size < options.maxProcesses + 1
    /\ warriors[i].processQueue.peak < options.maxProcesses + 1
    /\ warriors[i].tasks <= options.maxProcesses

\* C4 as stated: at every moment of a round, the middle of an SPL included, each
\* queue holds fewer than maxProcesses + 1 program counters, so that no push
\* meets a full queue, and no tasks counter exceeds maxProcesses.
C4_QueueBelowLimit == InRound => C4_Bounded

\* C4 with maxProcesses at least 1: at every moment of a round, the middle of
\* an SPL included, each queue holds fewer than maxProcesses + 1 program
\* counters, and no tasks counter exceeds maxProcesses.
C4_QueueBelowLimitFromOne == (InRound /\ options.maxProcesses >= 1) => C4_Bounded

\* C4's case: an SPL has just run in a warrior that has maxProcesses tasks, its
\* queue having held maxProcesses program counters.
C4_Witness ==
  /\ InRound /\ lastCall = "step" /\ executed # << >>
  /\ options.maxProcesses >= 2
  /\ OpcodeAt(Last(executed).pc) = Opcode_SPL
  /\ warriors[Last(executed).w].tasks = options.maxProcesses
  /\ warriors[Last(executed).w].processQueue.peak = options.maxProcesses

\* C5: after setupRound with N warriors the round is over after at most
\* N * maxCycles executed cycles: the cycles executed and the cycles left never
\* add up to more than N * maxCycles, and no cycle is executed without one left.
C5_CycleBudget ==
  InRound =>
    /\ Len(executed) + cycle <= NumWarriors * options.maxCycles
    /\ Len(executed) <= NumWarriors * options.maxCycles
    /\ Len(executed) = NumWarriors * options.maxCycles => ~Running

\* C5's case: a round that used up all its cycles, with a warrior that kept splitting.
C5_Witness ==
  /\ InRound /\ lastCall = "step" /\ NumWarriors = 2
  /\ Len(executed) = NumWarriors * options.maxCycles
  /\ cycle = 0
  /\ \E i \in DOMAIN warriors : warriors[i].tasks = options.maxProcesses /\ warriors[i].tasks >= 2

\* C6, on one call of step().
C6_Step ==
  lastCall' = "step" =>
    IF cycle <= 0 \/ warriorsLeft < 2
      THEN /\ IsResult(ret')
           /\ executed' = executed
           /\ core' = core
           /\ cycle' = cycle
           /\ \A i \in DOMAIN warriors :
                warriors'[i].processQueue = warriors[i].processQueue
      ELSE /\ Len(executed') = Len(executed) + 1
           /\ cycle' < cycle
           /\ IF cycle' <= 0 \/ warriorsLeft' < 2
                THEN IsResult(ret')
                ELSE ret' = NoResult

\* C6: step() returns the round's result when it is called with cycle <= 0 or
\* fewer than two warriors left, then without executing a cycle, or when the
\* cycle it executes makes one of these true; otherwise it executes exactly one
\* cycle and returns null.
C6_StepResult == [][C6_Step]_vars

\* C6's case: a step that executed a cycle and returned null.
C6_Witness ==
  /\ InRound /\ lastCall = "step" /\ ret = NoResult /\ Len(executed) >= 2

\* C7, on the states of a round with one warrior left of several: the last
\* cycle executed is the one that left it alone.
C7_NoCycleAfter ==
  (InRound /\ NumWarriors >= 2 /\ warriorsLeft = 1) =>
    /\ executed # << >>
    /\ Cardinality(Last(executed).alive) = 1
    /\ Last(executed).w \notin Last(executed).alive
    /\ \A k \in 1..(Len(executed) - 1) : Cardinality(executed[k].alive) >= 2

\* C7, on the step that kills a warrior's last task and leaves one warrior.
C7_Step ==
  (lastCall' = "step" /\ Running /\ warriorsLeft' = 1) =>
    /\ IsResult(ret')
    /\ Len(executed') = Len(executed) + 1
    /\ ~warriors'[Last(executed').w].alive
    /\ \A j \in AliveSet(warriors') :
         warriors'[j].processQueue = warriors[j].processQueue

\* C7: when the step that kills a warrior's only remaining task leaves exactly
\* one warrior alive, that same call of step() ends the round and returns its
\* result, and no further cycle is executed for the survivor.
C7_LastDeathEndsRound == [] C7_NoCycleAfter /\ [][C7_Step]_vars

\* C7's case: a step has killed the last task of one of two warriors, with cycles left.
C7_Witness ==
  /\ InRound /\ lastCall = "step" /\ NumWarriors >= 2
  /\ warriorsLeft = 1 /\ cycle > 0
  /\ ret.outcome = "WIN"

\* C8, on one step that executes an SPL.
C8_Step ==
  LET i == currentWarriorIdx
      pc == QueueFront(warriors[i].processQueue)
      addrA == EvalA(options, core, CoreGet(core, pc), pc).addrA
      next == (pc + 1) % options.coreSize
      rest == Tail(QueueOf(warriors, i))
  IN  (lastCall' = "step" /\ Running /\ OpcodeAt(pc) = Opcode_SPL) =>
        /\ warriors[i].tasks = options.maxProcesses =>
             /\ warriors'[i].tasks = warriors[i].tasks
             /\ QueueOf(warriors', i) = rest \o <<next>>
        /\ warriors[i].tasks < options.maxProcesses =>
             /\ warriors'[i].tasks = warriors[i].tasks + 1
             /\ QueueOf(warriors', i) = rest \o <<next, addrA>>

\* C8: an SPL executed while its warrior's tasks equals maxProcesses leaves tasks
\* unchanged and enqueues PC+1 and not the split target addrA; executed while
\* tasks < maxProcesses it increases tasks by exactly one and enqueues PC+1 and
\* then addrA, in that order.
C8_SplAtLimit == [][C8_Step]_vars

\* C8's case: with maxProcesses = 1, an SPL has run in a warrior with one task
\* and has left it one task, at PC+1.
C8_Witness ==
  /\ InRound /\ lastCall = "step" /\ executed # << >>
  /\ options.maxProcesses = 1
  /\ OpcodeAt(Last(executed).pc) = Opcode_SPL
  /\ warriors[Last(executed).w].tasks = 1
  /\ QueueOf(warriors, Last(executed).w) = <<(Last(executed).pc + 1) % options.coreSize>>

\* C9, on one step of a running round.
C9_Step ==
  LET i == currentWarriorIdx
      old == QueueOf(warriors, i)
      new == QueueOf(warriors', i)
  IN  (lastCall' = "step" /\ Running) =>
        /\ Last(executed').pc = Head(old)
        /\ Len(new) >= Len(old) - 1
        /\ SubSeq(new, 1, Len(old) - 1) = Tail(old)

\* C9: within one warrior the tasks run in FIFO order: each visit executes the
\* program counter at the head of the warrior's queue, and every program
\* counter the cycle enqueues is placed at the tail, behind all those already
\* queued.
C9_Fifo == [][C9_Step]_vars

\* C9's case: a cycle has enqueued a program counter behind one that was queued.
C9_Witness ==
  /\ InRound /\ lastCall = "step" /\ executed # << >>
  /\ Len(QueueOf(warriors, Last(executed).w)) >= 2
  /\ OpcodeAt(Last(executed).pc) = Opcode_JMP

\* C10: the result of a round is WIN with winnerId the surviving warrior's id
\* exactly when exactly one warrior is alive at the round's end; otherwise two
\* or more are alive and it is TIE with no winner.
C10_Result ==
  (InRound /\ lastCall \in {"step", "runRound"} /\ IsResult(ret)) =>
    IF Cardinality(AliveSet(warriors)) = 1
      THEN \E i \in AliveSet(warriors) :
             ret = [winnerId |-> warriors[i].id, outcome |-> "WIN"]
      ELSE /\ Cardinality(AliveSet(warriors)) >= 2
           /\ ret = [winnerId |-> Null, outcome |-> "TIE"]

\* C10's case: a round won by a warrior that is not the first.
C10_Witness ==
  /\ InRound /\ lastCall = "runRound"
  /\ ret.outcome = "WIN" /\ ret.winnerId = 1
  /\ AliveSet(warriors) = {1}


\* C11: when step() or runRound() has returned the result of a round, every
\* warrior alive at the end has lastResult equal to the number of warriors
\* alive at the end, and every dead warrior has lastResult 0, each warrior for
\* itself, whatever P-space it uses.
C11_LastResult ==
  (InRound /\ lastCall \in {"step", "runRound"} /\ IsResult(ret)) =>
    \A i \in DOMAIN warriors :
      warriors[i].lastResult =
        IF warriors[i].alive THEN Cardinality(AliveSet(warriors)) ELSE 0

\* The second round has ended with a survivor and a dead warrior that share a
\* P-space.
C11_Witness ==
  /\ roundNum = 2
  /\ lastCall \in {"step", "runRound"}
  /\ IsResult(ret)
  /\ \E i, j \in DOMAIN warriors :
       /\ i # j
       /\ warriors[i].pSpaceIndex = warriors[j].pSpaceIndex
       /\ warriors[i].alive /\ warriors[i].lastResult = 1
       /\ ~warriors[j].alive /\ warriors[j].lastResult = 0

\* The circular distance between the addresses p and q of a core of size cs.
CircularDistance(p, q, cs) == IF Abs(p - q) < cs - Abs(p - q) THEN Abs(p - q) ELSE cs - Abs(p - q)

\* C12: in a round, with N warriors and N * separation <= coreSize, the
\* positions setupRound got from positionWarriors are pairwise at circular
\* distance at least the separation it passed (options.minSeparation as
\* loadWarriors left it).
C12_Separated ==
  (InRound /\ NumWarriors >= 2 /\ NumWarriors * options.minSeparation <= options.coreSize) =>
    \A i, j \in DOMAIN warriors :
      i # j => CircularDistance(warriors[i].position, warriors[j].position,
                                options.coreSize) >= options.minSeparation

\* The seed setupRound positions the warriors with.
RoundSeed ==
  IF seed = 0
    THEN rng(IF options.seed = Null THEN checksumWarriors(Sim) ELSE options.seed)
    ELSE seed

\* posit gave up: it met an overlap with no roll-back left (its return marked
\* "exceeded", where the flag it returns is true).
PositExceeded(result) == result.success

\* C13: a setupRound or runRound with three or more warriors places them where
\* posit placed them when posit placed them all within its budgets, and where
\* npos places them when posit exceeded its budgets.
C13_Fallback ==
  [][(lastCall' \in {"setupRound", "runRound"} /\ ret' # Thrown /\ NumWarriors >= 3) =>
       \E result \in {posit(NumWarriors, options.coreSize, options.minSeparation, RoundSeed,
                             [i \in 0..(NumWarriors - 1) |-> 0])} :
         \A i \in DOMAIN warriors :
           warriors'[i].position =
             IF PositExceeded(result)
               THEN npos(NumWarriors, options.coreSize, options.minSeparation,
                         result.seed, result.positions).positions[i]
               ELSE result.positions[i]]_vars

\* C14: after every setupRound that returned, each warrior is alive with one
\* task and a queue holding exactly its start address, (position +
\* startOffset) folded into the core; all N warriors are left, the cycle
\* budget is N * maxCycles, and the alive ring is 0 -> 1 -> ... -> N-1 -> 0.
C14_AfterSetup ==
  (lastCall = "setupRound" /\ ret = Void) =>
    /\ \A i \in DOMAIN warriors :
         /\ warriors[i].alive
         /\ warriors[i].tasks = 1
         /\ warriors[i].processQueue.size = 1
         /\ QueueOf(warriors, i) =
              <<CoreWrap(warriors[i].position + warriors[i].startOffset, options.coreSize)>>
         /\ nextWarrior[i] = (i + 1) % NumWarriors
         /\ prevWarrior[i] = (i + NumWarriors - 1) % NumWarriors
    /\ warriorsLeft = NumWarriors
    /\ cycle = NumWarriors * options.maxCycles

\* The second round has been set up after a round in which a warrior died
\* (its score counts a loss), with a warrior that starts off its first
\* instruction.
C14_Witness ==
  /\ lastCall = "setupRound" /\ ret = Void
  /\ roundNum = 2
  /\ \E i \in DOMAIN warriors : \E k \in DOMAIN warriors[i].score :
       k >= NumWarriors /\ warriors[i].score[k] > 0
  /\ \E i \in DOMAIN warriors : warriors[i].startOffset # 0

\* C15, on the states: roundNum being k, the warrior whose turn it is right
\* after setupRound, and the warrior that executed the first cycle of the
\* round, is warrior (k - 1) mod N.
C15_FirstCycle ==
  /\ (lastCall = "setupRound" /\ ret = Void) =>
       currentWarriorIdx = (roundNum - 1) % NumWarriors
  /\ (InRound /\ executed # << >>) => executed[1].w = (roundNum - 1) % NumWarriors

\* C15, on the calls: roundNum counts the rounds set up; a setupRound or
\* runRound that does not throw adds one to it and no other call changes it.
C15_RoundCount ==
  roundNum' = IF lastCall' \in {"setupRound", "runRound"} /\ ret' # Thrown
                THEN roundNum + 1 ELSE roundNum

\* C15: the first cycle of the k-th round set up on a Simulator is executed by
\* warrior (k - 1) mod N.
C15_StarterRotates == [] C15_FirstCycle /\ [][C15_RoundCount]_vars

\* The first cycle of the second round of three warriors was run by warrior 1.
C15_Witness ==
  /\ roundNum = 2 /\ NumWarriors = 3
  /\ executed # << >> /\ executed[1].w = 1

\* The warriors whose image, loaded at its position in ws, covers address a.
Covering(ws, a) ==
  {i \in DOMAIN ws : \E k \in 1..Len(warriorData[i].instructions) :
                       (ws[i].position + k - 1) % options.coreSize = a}

\* The instruction of warrior i's image that lies at address a.
ImageAt(ws, i, a) ==
  warriorData[i].instructions[
    CHOOSE k \in 1..Len(warriorData[i].instructions) :
      (ws[i].position + k - 1) % options.coreSize = a]

\* C16, on a setupRound that returns: afterwards every core cell holds the
\* instruction of the warrior image loaded over it (the last loaded, where
\* images overlap) or, outside the images, the initial instruction, whatever the
\* core held before; every P-space (cells and lastResult) and every warrior's
\* lastResult are as they were.
C16_Setup ==
  (lastCall' = "setupRound" /\ ret' = Void) =>
    /\ \A a \in DOMAIN core' :
         core'[a] = IF Covering(warriors', a) = {} THEN INITIAL_INSTRUCTION
                    ELSE ImageAt(warriors', -Min({-i : i \in Covering(warriors', a)}), a)
    /\ pSpaces' = pSpaces
    /\ \A i \in DOMAIN warriors : warriors'[i].lastResult = warriors[i].lastResult

\* C16, on the other calls: the cells of a P-space change only in a step() or
\* runRound(), which execute the warriors' instructions.
C16_CellsKept ==
  (\E k \in DOMAIN pSpaces : pSpaces'[k].space # pSpaces[k].space) =>
    lastCall' \in {"step", "runRound"}

CurPc == Head(QueueOf(warriors, currentWarriorIdx))

CurIns == CoreGet(core, CurPc)

CurOp == decodeOpcode(CurIns.opcode).opcode

CurMod == decodeOpcode(CurIns.opcode).modifier

CurA == EvalA(options, core, CurIns, CurPc)

CurB == EvalB(options, CurA.core, CurIns, CurPc)

CurPSpace == pSpaces[warriors[currentWarriorIdx].pSpaceIndex]

\* The P-space index and the value of the STP about to be executed.
StpIndex == IF CurMod \in {Modifier_A, Modifier_BA} THEN CurB.AB_Value ELSE CurB.irBValue

StpValue == IF CurMod \in {Modifier_A, Modifier_AB} THEN CurA.AA_Value ELSE CurA.irAValue

\* The P-space index of the LDP about to be executed, and the field it loads
\* as it is after the step.
LdpIndex == IF CurMod \in {Modifier_A, Modifier_AB} THEN CurA.AA_Value ELSE CurA.irAValue

LdpLoaded ==
  IF CurMod \in {Modifier_A, Modifier_BA} THEN CoreGet(core', CurB.addrB).aValue
  ELSE CoreGet(core', CurB.addrB).bValue

\* C17, on a step() that executes one cycle and does not end the round: an STP
\* whose index is 0 modulo the size of the warrior's P-space leaves every
\* P-space (cells and lastResult) and every other warrior's lastResult as they
\* were and makes the executing warrior's lastResult the value stored; an LDP
\* with such an index loads the executing warrior's lastResult.
C17_Step ==
  (lastCall' = "step" /\ Running /\ ret' = NoResult) =>
    /\ (CurOp = Opcode_STP /\ StpIndex % CurPSpace.size = 0) =>
         /\ pSpaces' = pSpaces
         /\ warriors'[currentWarriorIdx].lastResult = StpValue
         /\ \A j \in DOMAIN warriors \ {currentWarriorIdx} :
              warriors'[j].lastResult = warriors[j].lastResult
    /\ (CurOp = Opcode_LDP /\ LdpIndex % CurPSpace.size = 0) =>
         LdpLoaded = warriors[currentWarriorIdx].lastResult

\* C17: STP and LDP at an index that is 0 modulo the P-space size write and
\* read the executing warrior's own lastResult.
C17_IndexZero == [][C17_Step]_vars

\* A warrior has stored 1 with STP at index 0 of a P-space it shares and then
\* loaded it with LDP: its lastResult is 1, while the lastResult of the PSpace
\* object and of the warrior sharing the P-space are not.
C17_Witness ==
  /\ InRound /\ lastCall = "step" /\ ret = NoResult
  /\ Len(executed) >= 2
  /\ LET e == Last(executed)
         w == warriors[Last(executed).w]
     IN  /\ OpcodeAt(e.pc) = Opcode_LDP
         /\ CoreGet(core, e.pc).bValue = 1
         /\ pSpaces[w.pSpaceIndex].size = 1
         /\ w.lastResult = 1
         /\ pSpaces[w.pSpaceIndex].lastResult # 1
         /\ \E j \in DOMAIN warriors :
              /\ j # e.w
              /\ warriors[j].pSpaceIndex = w.pSpaceIndex
              /\ warriors[j].lastResult # 1

\* C18: once loadWarriors has been called, a warrior with a null pin has
\* pSpaceIndex equal to its own index, and a warrior with a pin has pSpaceIndex
\* equal to the lowest index of a loaded warrior with that pin (its own index
\* where no earlier warrior has the pin).
C18_PinSharing ==
  initialized =>
    \A i \in DOMAIN warriors :
      warriors[i].pSpaceIndex =
        IF warriorData[i].pin = Null THEN i
        ELSE Min({j \in 0..i : warriorData[j].pin = warriorData[i].pin})

\* Four warriors with the pins 7, 3, 7, 7 are loaded: the third and the fourth
\* use the P-space of the first, the second its own.
C18_Witness ==
  /\ initialized /\ NumWarriors = 4
  /\ warriorData[0].pin = warriorData[3].pin /\ warriorData[2].pin = warriorData[3].pin
  /\ warriorData[1].pin \notin {Null, warriorData[0].pin}
  /\ warriors[0].pSpaceIndex = 0 /\ warriors[1].pSpaceIndex = 1
  /\ warriors[2].pSpaceIndex = 0 /\ warriors[3].pSpaceIndex = 0

\* C19, on clear(): afterwards every cell is 0 and lastResult is 0.
C19_Clear ==
  lastCall' = "clear" =>
    /\ \A i \in DOMAIN pSpaces'[0].space : pSpaces'[0].space[i] = 0
    /\ pSpaces'[0].lastResult = 0

\* C19, on clearKeepResult(): afterwards every cell is 0 and lastResult is
\* what it was.
C19_ClearKeepResult ==
  lastCall' = "clearKeepResult" =>
    /\ \A i \in DOMAIN pSpaces'[0].space : pSpaces'[0].space[i] = 0
    /\ pSpaces'[0].lastResult = pSpaces[0].lastResult

\* C19: clear() zeroes the cells and lastResult; clearKeepResult() zeroes the
\* cells and keeps lastResult.
C19_ClearVsKeep == [][C19_Clear /\ C19_ClearKeepResult]_vars

ConfigError(o, n) ==
  \/ n > MAX_WARRIORS
  \/ o.fixedSeries /\ o.fixedPosition # Null
  \/ o.fixedPosition # Null /\ o.fixedPosition < o.minSeparation

\* C21: a call of loadWarriors throws, and loads nothing, exactly when the
\* options it finds and the list it is given are a configuration error; a
\* list of at most 36 warriors with no conflicting position options is
\* accepted.  (warriorData' is the list passed: loadWarriors assigns it first.)
C21_Validates ==
  [][lastCall' = "loadWarriors" =>
       IF ConfigError(options, ALen(warriorData'))
         THEN ret' = Thrown /\ ~initialized'
         ELSE ret' = Void /\ initialized']_vars

\* The field pairs of a DIV or MOD with modifier mod, from the operands a and
\* b: the destination field (A or B), the dividend and the divisor.
DivPairs(mod, a, b) ==
  LET P(toA, dividend, divisor) ==
        [toA |-> toA, dividend |-> dividend, divisor |-> divisor]
  IN  CASE mod = Modifier_A -> {P(TRUE, b.AB_Value, a.AA_Value)}
        [] mod = Modifier_B -> {P(FALSE, b.irBValue, a.irAValue)}
        [] mod = Modifier_AB -> {P(FALSE, b.irBValue, a.AA_Value)}
        [] mod = Modifier_BA -> {P(TRUE, b.AB_Value, a.irAValue)}
        [] mod = Modifier_X -> {P(TRUE, b.AB_Value, a.irAValue),
                                P(FALSE, b.irBValue, a.AA_Value)}
        [] OTHER -> {P(TRUE, b.AB_Value, a.AA_Value), P(FALSE, b.irBValue, a.irAValue)}

\* C22, on one step that executes a DIV or MOD: every field pair of the
\* modifier whose divisor is not zero has its quotient (remainder) in its
\* destination field, every pair whose divisor is zero has left its
\* destination field as it was, and no other cell has changed; the task is
\* gone when some divisor was zero, and continues at PC+1 otherwise.
C22_Step ==
  LET i == currentWarriorIdx
      pairs == DivPairs(CurMod, CurA, CurB)
      anyZero == \E p \in pairs : p.divisor = 0
      Of(cell, p) == IF p.toA THEN cell.aValue ELSE cell.bValue
      Op(x, y) == IF CurOp = Opcode_DIV THEN x \div y ELSE x % y
      rest == Tail(QueueOf(warriors, i))
  IN  (lastCall' = "step" /\ Running /\ CurOp \in {Opcode_DIV, Opcode_MOD}) =>
        /\ \A p \in pairs :
             Of(CoreGet(core', CurB.addrB), p) =
               IF p.divisor = 0 THEN Of(CoreGet(CurB.core, CurB.addrB), p)
               ELSE Op(p.dividend, p.divisor)
        /\ \A addr \in DOMAIN core : addr # CurB.addrB => core'[addr] = CurB.core[addr]
        /\ anyZero =>
             /\ warriors'[i].tasks = warriors[i].tasks - 1
             /\ QueueOf(warriors', i) = rest
        /\ ~anyZero =>
             /\ warriors'[i].tasks = warriors[i].tasks
             /\ QueueOf(warriors', i) = rest \o <<(CurPc + 1) % options.coreSize>>

\* C22: a DIV or MOD whose divisor is zero kills the executing task and
\* writes nothing for that field pair; with modifiers F, I and X both field
\* pairs are attempted, so the pair whose divisor is not zero is still
\* computed and written before the task dies.
C22_DivideByZero == [][C22_Step]_vars

\* C22's case: a DIV.F with a zero first divisor and the second divisor 2 has
\* run; its only task is gone, the destination's A field is still 3 and its B
\* field holds 5 / 2.
C22_Witness ==
  /\ lastCall = "step" /\ Len(executed) = 1
  /\ LET pc == Last(executed).pc
         ir == CoreGet(core, pc)
         src == CoreGet(core, pc + 1)
         dst == CoreGet(core, pc + 2)
     IN  /\ decodeOpcode(ir.opcode) = [opcode |-> Opcode_DIV, modifier |-> Modifier_F]
         /\ ir.aMode = AddressMode_DIRECT /\ ir.aValue = 1
         /\ src.aValue = 0 /\ src.bValue = 2
         /\ dst.aValue = 3 /\ dst.bValue = 2
         /\ warriors[Last(executed).w].tasks = 0
         /\ ~warriors[Last(executed).w].alive

\* C23: in a CircularQueue that push and pop keep between empty and full, the
\* values pop has returned are the first values pushed, in the order they
\* were pushed; size is the number of pushes minus the number of pops; and
\* toArray lists the values pushed and not yet popped, oldest first.
C23_Fifo ==
  /\ Len(queue.popped) <= Len(queue.pushed)
  /\ queue.popped = SubSeq(queue.pushed, 1, Len(queue.popped))
  /\ queue.q.size = Len(queue.pushed) - Len(queue.popped)
  /\ QueueToArray(queue.q) =
       SubSeq(queue.pushed, Len(queue.popped) + 1, Len(queue.pushed))

\* C23's case: head and tail have wrapped; the queue holds two values of
\* which the older is in the last slot and the newer in slot 0, and pop has
\* returned values that differ.
C23_Witness ==
  /\ lastCall = "pop"
  /\ queue.q.capacity >= 2 /\ Len(queue.pushed) > queue.q.capacity
  /\ queue.q.size = 2 /\ queue.q.head = queue.q.capacity - 1 /\ queue.q.tail = 1
  /\ \E i, j \in DOMAIN queue.popped : queue.popped[i] # queue.popped[j]
  /\ QueueToArray(queue.q)[1] # QueueToArray(queue.q)[2]

\* C24: with no seed configured, the seed of a Simulator that has set up a
\* round (the warriors' checksum, one step of the generator, and the steps
\* the positioning has made since) is an integer in [1, 2^31 - 2].
C24_SeedInRange ==
  (InRound /\ options.seed = Null) => seed \in 1..2147483646

\* The source of the Assembler is instruction lines only: its final
\* instruction count is its number of lines.
OnlyInstructions == \A i \in DOMAIN asm.source : asm.source[i].word = "INS"

HasError(result) == \E i \in DOMAIN result.messages : result.messages[i].type = "ERROR"

\* C25: assembling a source whose final instruction count exceeds maxLength
\* emits an ERROR message and returns a failed result (success = false,
\* warrior = null), and a source with exactly maxLength instructions
\* assembles without an error.
C25_MaxLength ==
  (asm.result # NotAssembled /\ OnlyInstructions) =>
    /\ Len(asm.source) > asm.opts.maxLength =>
         /\ HasError(asm.result)
         /\ ~asm.result.success
         /\ asm.result.warrior = NoWarrior
    /\ Len(asm.source) = asm.opts.maxLength =>
         /\ ~HasError(asm.result)
         /\ asm.result.success

\* C26: a FOR block whose count is N * 65536 + k, with 0 <= k < 65536, emits
\* its body exactly k times: the warrior of FOR count / DAT / ROF with or
\* without a DAT after it has k instructions, and one more for the DAT after.
C26_ForCount ==
  \A count \in {0, 1, 2, ForCountWrap, ForCountWrap + 1}, trailing \in BOOLEAN :
    (asm.result # NotAssembled /\ asm.source = ForSource(count, trailing)) =>
      LET k == count % ForCountWrap
          n == k + (IF trailing THEN 1 ELSE 0)
      IN  IF n = 0 THEN ~asm.result.success
          ELSE /\ asm.result.outcome = "return"
               /\ BlocksLength(asm.result.warrior.instructions) = n

\* A chain of definitions that starts at name comes back to a name it has
\* passed, within steps steps.
RECURSIVE Cyclic(_, _, _, _)
Cyclic(name, defs, seen, steps) ==
  /\ steps > 0
  /\ name \in DOMAIN defs
  /\ \/ name \in seen
     \/ defs[name].isName /\ Cyclic(defs[name].name, defs, seen \cup {name}, steps - 1)

\* The EQU definitions of the Assembler's source, by name.
SourceEqus ==
  LET ix == {i \in DOMAIN asm.source : asm.source[i].word = "EQU"}
  IN  [name \in {asm.source[i].label : i \in ix} |->
         asm.source[CHOOSE i \in ix : asm.source[i].label = name].expr]

\* C27: assembling a source whose ORG, END or PIN refers to EQU definitions
\* that form a cycle returns, and succeeds, with the cyclic reference taken
\* as 0: startOffset is 0, a pin is 0, and a WARNING tells of the cycle.
C27_EquCycle ==
  LET last == asm.source[Len(asm.source)]
  IN  (/\ asm.result # NotAssembled
       /\ last.word \in {"ORG", "END", "PIN"}
       /\ last.expr.isName
       /\ Cyclic(last.expr.name, SourceEqus, {}, Len(asm.source) + 1)) =>
        /\ asm.result.outcome = "return"
        /\ asm.result.success
        /\ asm.result.warrior.startOffset = 0
        /\ last.word = "PIN" => asm.result.warrior.pin = 0
        /\ \E i \in DOMAIN asm.result.messages :
             asm.result.messages[i] = Message("WARNING", "Recursive EQU cycle")

\* The instruction about to be executed ends its task: a DAT, or a DIV or MOD
\* with a zero divisor.
CurKills ==
  \/ CurOp = Opcode_DAT
  \/ /\ CurOp \in {Opcode_DIV, Opcode_MOD}
     /\ \E p \in DivPairs(CurMod, CurA, CurB) : p.divisor = 0

\* C28, on one step() in which the warrior whose turn it is loses its last task.
C28_Step ==
  LET i == currentWarriorIdx
      n == NumWarriors
      w == warriorsLeft
  IN  (lastCall' = "step" /\ Running /\ warriors[i].tasks = 1 /\ CurKills) =>
        /\ warriors[i].alive /\ ~warriors'[i].alive
        /\ warriors'[i].score = [warriors[i].score EXCEPT ![w + n - 2] = @ + 1]
        /\ ret' = NoResult =>
             \A j \in DOMAIN warriors \ {i} : warriors'[j].score = warriors[j].score
        /\ warriorsLeft' = w - 1
        /\ nextWarrior'[prevWarrior[i]] = nextWarrior[i]
        /\ prevWarrior'[nextWarrior[i]] = prevWarrior[i]
        /\ \A j \in AliveSet(warriors') : nextWarrior'[j] # i /\ prevWarrior'[j] # i
        /\ currentWarriorIdx' = nextWarrior[i]
        /\ currentWarriorIdx' \in AliveSet(warriors')

\* C28: when the last task of a warrior dies while w warriors are alive, then
\* in that same step the warrior becomes not alive, exactly its score[w+N-2]
\* is incremented by one and no other score entry changes, warriorsLeft
\* becomes w-1, the warrior is unlinked from the alive ring, and the next
\* cycle is executed by the warrior that followed it in the ring.
C28_LastTaskDies ==
  /\ [][C28_Step]_vars
  /\ [](\A k \in 1..(Len(executed) - 1) :
          ~(executed[k].w \in executed[k].alive) =>
             executed[k + 1].w = NextAlive(executed[k].w, executed[k].alive, NumWarriors))

\* C28's case: of three warriors the second has lost its only task, with
\* three alive, and the round goes on with the third.
C28_Witness ==
  /\ InRound /\ lastCall = "step" /\ ret = NoResult /\ NumWarriors = 3
  /\ executed # << >> /\ Last(executed).w = 1
  /\ ~warriors[1].alive /\ warriors[1].score[4] = 1
  /\ warriorsLeft = 2 /\ currentWarriorIdx = 2
  /\ nextWarrior[0] = 2 /\ prevWarrior[2] = 0


\* C29, on one step(): the counter after a step in which the warrior whose
\* turn it is loses its last task, after any other executed cycle, and after
\* a step() that executes nothing.
C29_Step ==
  LET i == currentWarriorIdx
      c == cycle
      w == warriorsLeft
  IN  lastCall' = "step" =>
        /\ (Running /\ warriors[i].tasks = 1 /\ CurKills) =>
             cycle' = (c - 1 - ((c - 1) \div w)) - 1
        /\ (Running /\ ~(warriors[i].tasks = 1 /\ CurKills)) => cycle' = c - 1
        /\ cycle' <= c

\* C29: when a warrior dies in a step that starts with remaining-cycle counter
\* c and w warriors alive, the counter is set to c - 1 - floor((c - 1) / w), with
\* w taken before warriorsLeft is decremented, in addition to the ordinary
\* decrement of one that every step applies; no step ever increases the counter.
C29_CycleDeduction == [][C29_Step]_vars

\* C29's case: the first of three warriors died in the first cycle of a round, and
\* the deduction took more than the one cycle of the step away.
C29_Witness ==
  /\ InRound /\ lastCall = "step" /\ NumWarriors = 3 /\ Len(executed) = 1
  /\ ~warriors[0].alive /\ warriorsLeft = 2
  /\ (3 * options.maxCycles - 1) \div 3 >= 1
  /\ cycle = 3 * options.maxCycles - 1 - ((3 * options.maxCycles - 1) \div 3) - 1


\* The number of instructions warrior i has executed in the round so far.
ExecutedBy(i) == Cardinality({k \in 1..Len(executed) : executed[k].w = i})

\* C30: in any round no warrior executes more than maxCycles instructions,
\* whatever the number of warriors and the order and timing of the deaths.
C30_PerWarriorCycles ==
  InRound => \A i \in DOMAIN warriors : ExecutedBy(i) <= options.maxCycles

\* C30's case: in a round of three or more warriors one has died before the
\* end and a survivor has executed all of its maxCycles instructions.
C30_Witness ==
  /\ InRound /\ lastCall = "step" /\ NumWarriors >= 3 /\ IsResult(ret)
  /\ \E k \in 1..Len(executed) :
       /\ ~(executed[k].w \in executed[k].alive)
       /\ k < Len(executed)
       /\ k > 1
  /\ \E i \in DOMAIN warriors : warriors[i].alive /\ ExecutedBy(i) = options.maxCycles


\* C31: at round end the lastResult of the PSpace used by each alive warrior
\* equals the number of warriors alive at the end, for every assignment of
\* pins, including P-spaces shared by several warriors.
C31_SharedLastResult ==
  (InRound /\ IsResult(ret)) =>
    \A i \in AliveSet(warriors) :
      pSpaces[warriors[i].pSpaceIndex].lastResult = warriorsLeft


\* C32, on one step that executes a DJN: the selected field(s) of core[addrB]
\* are one less than the operand resolution left them, 0 wrapping to
\* coreSize-1, nothing else in the core changes, and the task continues at
\* addrA when a selected field is non-zero after the decrement and at PC+1
\* otherwise.
C32_Step ==
  LET i == currentWarriorIdx
      cs == options.coreSize
      before == CoreGet(CurB.core, CurB.addrB)
      after == CoreGet(core', CurB.addrB)
      Dec(v) == IF v = 0 THEN cs - 1 ELSE v - 1
      selA == CurMod \in {Modifier_A, Modifier_BA, Modifier_F, Modifier_X, Modifier_I}
      selB == CurMod \in {Modifier_B, Modifier_AB, Modifier_F, Modifier_X, Modifier_I}
      nonZero == (selA /\ after.aValue # 0) \/ (selB /\ after.bValue # 0)
      rest == Tail(QueueOf(warriors, i))
  IN  (lastCall' = "step" /\ Running /\ CurOp = Opcode_DJN) =>
        /\ after.aValue = IF selA THEN Dec(before.aValue) ELSE before.aValue
        /\ after.bValue = IF selB THEN Dec(before.bValue) ELSE before.bValue
        /\ \A addr \in DOMAIN core : addr # CurB.addrB => core'[addr] = CurB.core[addr]
        /\ QueueOf(warriors', i) =
             rest \o <<IF nonZero THEN CurA.addrA ELSE (CurPc + 1) % cs>>

\* C32: DJN decrements the selected field(s) of core[addrB] (A|BA: A-field;
\* B|AB: B-field; F|X|I: both), wrapping 0 to coreSize-1, and jumps to addrA
\* exactly when the value(s) those field(s) hold after the decrement are
\* non-zero (for F|X|I: when at least one is), for every B addressing mode and
\* every read/write limit setting.
C32_Djn == [][C32_Step]_vars


\* The B operand of the instruction about to be executed as its immediate
\* mode defines it: both addresses the program counter, and the values the
\* fields of the instruction as it was fetched.
CurImmediateB ==
  [core |-> CurA.core, addrB |-> CurPc, raddrB |-> CurPc,
   AB_Value |-> CurIns.aValue, irBValue |-> CurIns.bValue]

\* C33, on one step that executes an instruction with an immediate B operand:
\* the core and the tasks of the warrior are what the instruction makes of
\* them with the B operand CurImmediateB.
C33_Step ==
  LET i == currentWarriorIdx
      w == [warriors[i] EXCEPT !.processQueue = QueuePop(@)]
      r == Dispatch(Sim, w, CurPc, CurIns, CurA, CurImmediateB)
      tasks == IF r.pushNext /\ ~r.died THEN pushProcess(r.w, r.nextAddr) ELSE r.w
  IN  (lastCall' = "step" /\ Running /\ CurIns.bMode = AddressMode_IMMEDIATE) =>
        /\ CurB.addrB = CurPc /\ CurB.raddrB = CurPc
        /\ core' = r.core
        /\ warriors'[i].processQueue = tasks.processQueue

\* C33: for an immediate (#) B-operand both B addresses equal PC and the
\* B-operand's values are the A- and B-field of the instruction as fetched
\* into the register copy at the start of the cycle, also when resolving the
\* A-operand (a pre-decrement or post-increment whose pointer cell is the
\* executing cell) has modified core[PC] in the meantime.
C33_ImmediateB == [][C33_Step]_vars


\* A post-increment operand as C34 describes it, for the operand field of the
\* instruction and the core c the resolution starts from: the base cell at PC
\* plus the field, folded; the operand cell, which the selected field of the
\* base cell points to from the base; the values of the operand cell in c; and
\* the core with the selected field of the base cell one greater.
PostincOperand(c, mode, field) ==
  LET cs == options.coreSize
      isAField == mode = AddressMode_A_POSTINC
      base == foldw(options, (field + CurPc) % cs, CurPc)
      pointer == IF isAField THEN c[base].aValue ELSE c[base].bValue
      read == foldr(options, (pointer + base) % cs, CurPc)
      grown == (pointer + 1) % cs
  IN  [base |-> base, read |-> read, write |-> foldw(options, (pointer + base) % cs, CurPc),
       aValue |-> c[read].aValue, bValue |-> c[read].bValue,
       core |-> IF isAField THEN [c EXCEPT ![base].aValue = grown]
                ELSE [c EXCEPT ![base].bValue = grown]]

\* C34, on one step: a post-increment A operand, and a post-increment B
\* operand on the core the A operand left, are as PostincOperand has them,
\* and an instruction that writes nothing itself (JMZ, SLT) leaves the core as
\* the operands left it.
C34_Step ==
  LET a == PostincOperand(core, CurIns.aMode, CurIns.aValue)
      b == PostincOperand(CurA.core, CurIns.bMode, CurIns.bValue)
  IN  (lastCall' = "step" /\ Running) =>
        /\ IsPostinc(CurIns.aMode) =>
             /\ CurA.core = a.core
             /\ CurA.addrA = a.read
             /\ CurA.AA_Value = a.aValue /\ CurA.irAValue = a.bValue
        /\ IsPostinc(CurIns.bMode) =>
             /\ CurB.core = b.core
             /\ CurB.raddrB = b.read /\ CurB.addrB = b.write
             /\ CurB.AB_Value = b.aValue /\ CurB.irBValue = b.bValue
        /\ CurOp \in {Opcode_JMZ, Opcode_SLT} =>
             /\ core' = CurB.core
             /\ (~IsPostinc(CurIns.aMode) /\ IsPostinc(CurIns.bMode)) => core' = b.core
             /\ (IsPostinc(CurIns.aMode) /\ ~IsPostinc(CurIns.bMode)) => core' = a.core
             /\ (IsPostinc(CurIns.aMode) /\ IsPostinc(CurIns.bMode)) =>
                  core' = PostincOperand(a.core, CurIns.bMode, CurIns.bValue).core
             /\ (CurOp = Opcode_JMZ /\ IsPostinc(CurIns.bMode)) =>
                  Last(QueueOf(warriors', currentWarriorIdx)) =
                    IF checkJMZ(CurMod, b.aValue, b.bValue) THEN CurA.addrA
                    ELSE (CurPc + 1) % options.coreSize

\* C34: for the post-increment modes (> and }), in both operands, the only
\* pointer cell modified is the cell at the pre-resolution base address (PC
\* plus the operand field, folded), whose selected field grows by one modulo
\* coreSize; the finally resolved operand cell is not incremented, and the
\* operand values are read before the increment is applied.
C34_PostIncrement == [][C34_Step]_vars

\* C34's case: JMZ.B $0, >0 has run at address 0 with the B-field of its own
\* cell as the pointer: the field has grown from 0 to 1, and the jump was
\* taken on the value 0 read before.
C34_Witness ==
  /\ lastCall = "step" /\ Len(executed) = 1 /\ executed[1].pc = 0
  /\ decodeOpcode(core[0].opcode).opcode = Opcode_JMZ
  /\ decodeOpcode(core[0].opcode).modifier = Modifier_B
  /\ core[0].aMode = AddressMode_DIRECT /\ core[0].aValue = 0
  /\ core[0].bMode = AddressMode_B_POSTINC /\ core[0].bValue = 1
  /\ options.readLimit = 0
  /\ QueueOf(warriors, 0) = <<0>>


\* C35, on one step that executes a cycle under a write limit: a cell that
\* differs after the step lies within writeLimit / 2 of the program counter.
C35_Step ==
  (lastCall' = "step" /\ Running /\ options.writeLimit > 0) =>
    \A addr \in DOMAIN core :
      core'[addr] # core[addr] =>
        CircularDistance(addr, CurPc, options.coreSize) <= options.writeLimit \div 2

\* C35: with writeLimit L > 0 (L <= coreSize), every core cell modified during
\* a cycle (pointer pre-decrement, pointer post-increment and the
\* instruction's destination write) lies within circular distance L / 2,
\* rounded down, of the executing PC, for every PC, opcode, addressing mode
\* and operand value.
C35_WriteLimit == [][C35_Step]_vars

\* C35's case: under write limit 2, MOV.I $0, $3 at address 0 has copied
\* itself to address 1, not to address 3.
C35_Witness ==
  /\ lastCall = "step" /\ Len(executed) = 1 /\ executed[1].pc = 0
  /\ options.writeLimit = 2
  /\ decodeOpcode(core[0].opcode).opcode = Opcode_MOV
  /\ core[0].aMode = AddressMode_DIRECT /\ core[0].aValue = 0
  /\ core[0].bMode = AddressMode_DIRECT /\ core[0].bValue = 3
  /\ core[1] = core[0]
  /\ core[3] # core[0]


\* C36: at every step boundary of a round, currentWarriorIdx refers to an
\* alive warrior, following nextWarrior from it visits every alive warrior
\* exactly once (in increasing index order, wrapping) before returning to it,
\* no dead warrior is reachable through nextWarrior or prevWarrior, and
\* prevWarrior is the inverse of nextWarrior on the alive warriors.
C36_AliveRing ==
  InRound =>
    LET alive == AliveSet(warriors) IN
    /\ currentWarriorIdx \in alive
    /\ \A i \in alive :
         /\ nextWarrior[i] = NextAlive(i, alive, NumWarriors)
         /\ nextWarrior[i] \in alive /\ prevWarrior[i] \in alive
         /\ prevWarrior[nextWarrior[i]] = i
         /\ nextWarrior[prevWarrior[i]] = i

\* C36's case: of four warriors the first two have died one after the other,
\* the round goes on, and the ring links the third and the fourth.
C36_Witness ==
  /\ InRound /\ lastCall = "step" /\ ret = NoResult /\ NumWarriors = 4
  /\ AliveSet(warriors) = {2, 3}
  /\ nextWarrior[2] = 3 /\ nextWarrior[3] = 2
  /\ prevWarrior[2] = 3 /\ prevWarrior[3] = 2
  /\ currentWarriorIdx = 2


\* C37: at every step boundary of a round, warriorsLeft equals the number of
\* warriors whose alive flag is true, it is at least 1, and a single step
\* decreases it by at most one.
C37_WarriorsLeft ==
  /\ [](InRound => /\ warriorsLeft = Cardinality(AliveSet(warriors))
                   /\ warriorsLeft >= 1)
  /\ [][(lastCall' = "step" /\ InRound) =>
          /\ warriorsLeft' \in {warriorsLeft, warriorsLeft - 1}
          /\ warriorsLeft' = warriorsLeft - 1 =>
               AliveSet(warriors') = AliveSet(warriors) \ {currentWarriorIdx}]_vars

\* C37's case: a step of a round of three warriors has taken warriorsLeft
\* from 3 to 2, and two warriors are alive.
C37_Witness ==
  /\ InRound /\ lastCall = "step" /\ NumWarriors = 3
  /\ Len(executed) >= 2
  /\ ~(Last(executed).w \in Last(executed).alive)
  /\ Cardinality(executed[Len(executed) - 1].alive) = 3
  /\ warriorsLeft = 2 /\ Cardinality(AliveSet(warriors)) = 2


\* The increments the score array of warrior i has received so far.
RECURSIVE ScoreSum(_, _)
ScoreSum(score, k) == IF k < 0 THEN 0 ELSE score[k] + ScoreSum(score, k - 1)

ScoreIncrements(i) == ScoreSum(warriors[i].score, ALen(warriors[i].score) - 1)

\* C38, on one step(): a step made after the round result has been returned
\* increments no score; a step of a round that goes on increments the score of
\* a warrior once when the warrior dies in it or is alive when it ends the
\* round, and not otherwise.
C38_Step ==
  (lastCall' = "step" /\ InRound) =>
    \A i \in DOMAIN warriors :
      ScoreSum(warriors'[i].score, ALen(warriors'[i].score) - 1) - ScoreIncrements(i) =
        IF /\ ~IsResult(ret)
           /\ warriors[i].alive
           /\ ~warriors'[i].alive \/ IsResult(ret')
          THEN 1 ELSE 0

\* C38: in each round, every warrior's score array receives exactly one
\* increment in total (at its death, or at round end if it survived), no matter
\* how many more times step() is called after the round result has first been
\* returned and before the next setupRound.
C38_OneIncrement == [][C38_Step]_vars


\* Every field of every loaded instruction lies in [0, coreSize).
LoadedInRange ==
  \A i \in DOMAIN warriorData :
    \A k \in DOMAIN warriorData[i].instructions :
      /\ warriorData[i].instructions[k].aValue \in 0..(options.coreSize - 1)
      /\ warriorData[i].instructions[k].bValue \in 0..(options.coreSize - 1)

\* C39: if every field of every loaded instruction lies in [0, coreSize), then
\* after any sequence of steps and rounds every core cell's A-value and
\* B-value is an integer in [0, coreSize), for every opcode (including DIV,
\* MOD, MUL, LDP of a lastResult or P-space value) and every pointer
\* pre-decrement or post-increment.
C39_ValuesInRange ==
  LoadedInRange =>
    \A addr \in DOMAIN core :
      /\ core[addr].aValue \in 0..(options.coreSize - 1)
      /\ core[addr].bValue \in 0..(options.coreSize - 1)


\* C40: once initialiseSimulator has been called, every call to the compat
\* API's run() returns a round result after finitely many steps, including a
\* call made after the current round's result has already been returned by an
\* earlier run() or step().
C40_RunReturns ==
  (compat.initialised /\ compat.running) ~> (~compat.running /\ IsResult(ret))

====
